---- MODULE Spec2Model ----
(***************************************************************************)
(* A model of cradle's spawn-and-relay engine:                             *)
(*   src/src/child_output.rs      ChildOutput::run_child_process(_output)  *)
(*   src/src/collected_output.rs  Waiter (stdin feeder, stdout and stderr  *)
(*                                drainers, join)                          *)
(*   src/src/output.rs            the Output extractors                    *)
(*   src/src/config.rs            Config, Config::full_command             *)
(* The parent's call, the three relay threads and the child process are    *)
(* separate processes of the model; they interact through three bounded    *)
(* pipes.  Bytes are integers (ASCII codes where text matters).            *)
(***************************************************************************)
EXTENDS Integers, Sequences, FiniteSets, TLC

(***************************************************************************)
(* Bounds of the model.                                                    *)
(***************************************************************************)
\* capacity in bytes of each OS pipe (stdin, stdout, stderr of the child)
PipeCapacity == 2
\* size of a drainer's read buffer: `&mut [0; 256]` in the source, scaled
BufferSize == 2

\* the longest stdin payload: one byte more than fits into the pipe
MaxPayload == PipeCapacity + 1

\* how many inputs a call has after its executable
MaxInputs == 2

\* the longest text a child has printed when an extractor converts it
MaxText == 3

(***************************************************************************)
(* Small helpers on sequences.                                             *)
(***************************************************************************)
Min(a, b) == IF a <= b THEN a ELSE b

Take(s, n) == SubSeq(s, 1, Min(n, Len(s)))

Drop(s, n) == SubSeq(s, Min(n, Len(s)) + 1, Len(s))

IsPrefix(s, t) == Len(s) <= Len(t) /\ SubSeq(t, 1, Len(s)) = s

\* Option<Vec<u8>>
None == [some |-> FALSE, val |-> <<>>]

Some(v) == [some |-> TRUE, val |-> v]

(***************************************************************************)
(* Bytes.  The k-th byte the child writes to stdout is the digit k, the    *)
(* k-th byte it writes to stderr the k-th capital letter, the k-th byte of *)
(* the stdin payload the k-th small letter: all different, so that loss,   *)
(* reordering and mixing of streams are visible.                           *)
(***************************************************************************)
StdoutByte(k) == 48 + k

StderrByte(k) == 64 + k

StdinByte(k) == 96 + k

Payload(n) == [k \in 1..n |-> StdinByte(k)]

\* ASCII codes used in rendered text
SPACE == 32

QUOTE == 39

PLUS == 43

NEWLINE == 10

REPLACEMENT == 65533

\* the arguments the inputs have produced: no argument at all, one
\* executable "a", an executable and an argument with a space "a", "b c"
ArgumentLists == { <<>>, << <<97>> >>, << <<97>>, <<98, SPACE, 99>> >> }

(***************************************************************************)
(* Config (src/src/config.rs).                                             *)
(***************************************************************************)
DefaultConfig ==
    [ arguments |-> <<>>,
      log_command |-> FALSE,
      working_directory |-> None,
      added_environment_variables |-> <<>>,
      stdin |-> <<>>,
      capture_stdout |-> FALSE,
      capture_stderr |-> FALSE,
      error_on_non_zero_exit_code |-> TRUE ]

\* OsStr::to_string_lossy: a byte that is not part of valid UTF-8 becomes
\* U+FFFD (the model's strings hold no multi-byte sequences)
ToStringLossy(argument) ==
    [i \in DOMAIN argument |->
        IF argument[i] >= 128 THEN REPLACEMENT ELSE argument[i]]

\* a rendering that quotes the arguments with a space only
NeedsQuotesForSpace(argument) ==
    \E i \in DOMAIN argument : argument[i] = SPACE

NeedsQuotes(argument) ==
    argument = <<>> \/ \E i \in DOMAIN argument : argument[i] = SPACE

RECURSIVE RenderArguments(_, _)
RenderArguments(arguments, result) ==
    IF arguments = <<>> THEN result
    ELSE LET argument == ToStringLossy(Head(arguments))
             sep == IF result # <<>> THEN <<SPACE>> ELSE <<>>
             q == IF NeedsQuotes(argument) THEN <<QUOTE>> ELSE <<>>
         IN RenderArguments(Tail(arguments),
                            result \o sep \o q \o argument \o q)

FullCommand(c) == RenderArguments(c.arguments, <<>>)

\* char::is_whitespace on the ASCII range
IsWhitespace(b) == b \in {9, 10, 11, 12, 13, 32}

\* str::split_whitespace: the non-empty words between whitespace
RECURSIVE SplitWhitespace(_, _, _)
SplitWhitespace(s, word, words) ==
    IF s = <<>>
    THEN IF word = <<>> THEN words ELSE Append(words, word)
    ELSE IF IsWhitespace(Head(s))
    THEN SplitWhitespace(Tail(s), <<>>,
                         IF word = <<>> THEN words ELSE Append(words, word))
    ELSE SplitWhitespace(Tail(s), Append(word, Head(s)), words)

\* a split that keeps the empty words between adjacent whitespace
RECURSIVE SplitKeepingEmpty(_, _, _)
SplitKeepingEmpty(s, word, words) ==
    IF s = <<>> THEN Append(words, word)
    ELSE IF IsWhitespace(Head(s))
    THEN SplitKeepingEmpty(Tail(s), <<>>, Append(words, word))
    ELSE SplitKeepingEmpty(Tail(s), Append(word, Head(s)), words)

(***************************************************************************)
(* The inputs (src/src/input.rs).  An input is a record of its kind, a key *)
(* (of Env only) and a value; the Input of a call is a tuple of inputs.    *)
(***************************************************************************)
ArgumentInput(argument) ==
    [kind |-> "Argument", key |-> <<>>, value |-> argument, elements |-> <<>>,
     members |-> <<>>]

\* Split(text), the % form of the macros
SplitInput(text) ==
    [kind |-> "Split", key |-> <<>>, value |-> text, elements |-> <<>>,
     members |-> <<>>]

\* a Vec, an array or a slice of text elements
VecInput(elements) ==
    [kind |-> "Vec", key |-> <<>>, value |-> <<>>, elements |-> elements,
     members |-> <<>>]

StdinInput(bytes) ==
    [kind |-> "Stdin", key |-> <<>>, value |-> bytes, elements |-> <<>>,
     members |-> <<>>]

EnvInput(key, value) ==
    [kind |-> "Env", key |-> key, value |-> value, elements |-> <<>>,
     members |-> <<>>]

LogCommandInput ==
    [kind |-> "LogCommand", key |-> <<>>, value |-> <<>>, elements |-> <<>>,
     members |-> <<>>]

CurrentDirInput(path) ==
    [kind |-> "CurrentDir", key |-> <<>>, value |-> path, elements |-> <<>>,
     members |-> <<>>]

\* the unit input ()
UnitInput ==
    [kind |-> "Unit", key |-> <<>>, value |-> <<>>, elements |-> <<>>,
     members |-> <<>>]

\* a tuple of inputs, which may be tuples themselves
TupleInput(members) ==
    [kind |-> "Tuple", key |-> <<>>, value |-> <<>>, elements |-> <<>>,
     members |-> members]

\* tuple_up!: the arguments of run!, run_output! and run_result! as one
\* input, a tuple nested to the right
RECURSIVE TupleUp(_)
TupleUp(arguments) ==
    IF Len(arguments) = 1 THEN Head(arguments)
    ELSE TupleInput(<< Head(arguments), TupleUp(Tail(arguments)) >>)

\* <String as Input>::configure and its like: config.arguments.push(self)
ArgumentConfigure(c, argument) ==
    [c EXCEPT !.arguments = Append(@, argument)]

\* a Stdin that replaces the payload of the Stdin before it
StdinOverwrite(c, bytes) == [c EXCEPT !.stdin = bytes]

\* <Stdin as Input>::configure: config.stdin.extend_from_slice(..)
StdinConfigure(c, bytes) == [c EXCEPT !.stdin = @ \o bytes]

\* <Env as Input>::configure: config.added_environment_variables.push(..)
EnvConfigure(c, key, value) ==
    [c EXCEPT !.added_environment_variables = Append(@, <<key, value>>)]

\* <LogCommand as Input>::configure
LogCommandConfigure(c) == [c EXCEPT !.log_command = TRUE]

\* a CurrentDir that counts only before the first argument
CurrentDirBeforeArguments(c, path) ==
    IF c.arguments = <<>> THEN [c EXCEPT !.working_directory = Some(path)]
    ELSE c

\* <CurrentDir as Input>::configure
CurrentDirConfigure(c, path) == [c EXCEPT !.working_directory = Some(path)]

\* for t in self { t.configure(config) } over text elements
RECURSIVE ConfigureEach(_, _)
ConfigureEach(c, arguments) ==
    IF arguments = <<>> THEN c
    ELSE ConfigureEach(ArgumentConfigure(c, Head(arguments)), Tail(arguments))

\* a Split whose empty words become arguments too
SplitConfigureKeepingEmpty(c, text) ==
    ConfigureEach(c, SplitKeepingEmpty(text, <<>>, <<>>))

\* <Split as Input>::configure
SplitConfigure(c, text) ==
    ConfigureEach(c, SplitWhitespace(text, <<>>, <<>>))

\* <Vec<T> as Input>::configure, and the arrays' and slices'
VecConfigure(c, elements) == ConfigureEach(c, elements)

RECURSIVE InputConfigure(_, _)

\* the sequence with its first element last and its last first
RECURSIVE Reverse(_)
Reverse(s) == IF s = <<>> THEN <<>> ELSE Append(Reverse(Tail(s)), Head(s))

\* a tuple that configures its members from the last to the first
TupleConfigureReversed(c, members) == InputConfigure(Reverse(members), c)

\* tuple_impl::configure: the members' configure, in order
TupleConfigure(c, members) == InputConfigure(members, c)

InputConfigureOne(i, c) ==
    CASE i.kind = "Argument" -> ArgumentConfigure(c, i.value)
      [] i.kind = "Unit" -> c
      [] i.kind = "Tuple" -> TupleConfigure(c, i.members)
      [] i.kind = "Split" -> SplitConfigure(c, i.value)
      [] i.kind = "Vec" -> VecConfigure(c, i.elements)
      [] i.kind = "Stdin" -> StdinConfigure(c, i.value)
      [] i.kind = "Env" -> EnvConfigure(c, i.key, i.value)
      [] i.kind = "LogCommand" -> LogCommandConfigure(c)
      [] i.kind = "CurrentDir" -> CurrentDirConfigure(c, i.value)

\* the inputs of a call, which are the members of a tuple: their
\* configure, in order
InputConfigure(inputs, c) ==
    IF inputs = <<>> THEN c
    ELSE InputConfigure(Tail(inputs), InputConfigureOne(Head(inputs), c))

\* the tuples of at most n inputs of a set
InputTuples(alphabet, n) == UNION { [1..k -> alphabet] : k \in 0..n }

\* the calls of the relay scenarios: the arguments, LogCommand or not, and
\* one Stdin with a payload of n bytes
InputsOf(arguments, log, n) ==
    [k \in DOMAIN arguments |-> ArgumentInput(arguments[k])]
        \o (IF log THEN <<LogCommandInput>> ELSE <<>>)
        \o (IF n > 0 THEN <<StdinInput(Payload(n))>> ELSE <<>>)

RelayInputs(argumentLists, logFlags) ==
    { InputsOf(arguments, log, n) :
        arguments \in argumentLists, log \in logFlags, n \in 0..MaxPayload }

(***************************************************************************)
(* The environment of the child: Command::env on top of the inherited      *)
(* environment of the parent.  A variable is Some(value) or not set.       *)
(***************************************************************************)
\* names of variables: "K", "L" are set in the parent, "M" is not
EnvKeys == { <<75>>, <<76>>, <<77>> }

\* values: "p" in the parent, "v" and "w" in the additions
ParentEnvironment ==
    [k \in EnvKeys |-> IF k = <<77>> THEN None ELSE Some(<<112>>)]

\* an env that leaves a variable alone once it is set
CommandEnvKeepFirst(environment, key, value) ==
    IF environment[key].some THEN environment
    ELSE [environment EXCEPT ![key] = Some(value)]

\* Command::env(key, value)
CommandEnv(environment, key, value) ==
    [environment EXCEPT ![key] = Some(value)]

\* for (key, value) in &config.added_environment_variables { command.env }
RECURSIVE CommandEnvs(_, _)
CommandEnvs(environment, added) ==
    IF added = <<>> THEN environment
    ELSE CommandEnvs(CommandEnv(environment, Head(added)[1], Head(added)[2]),
                     Tail(added))

\* the inputs of the calls that exercise the builders: an executable, then
\* at most MaxInputs of these
BuilderInputs ==
    { ArgumentInput(<<>>), ArgumentInput(<<98, SPACE, 99>>),
      ArgumentInput(<<128>>),
      StdinInput(<<97>>), StdinInput(<<98>>),
      EnvInput(<<75>>, <<118>>), EnvInput(<<75>>, <<119>>),
      EnvInput(<<77>>, <<118>>) }

BuilderCalls ==
    { <<ArgumentInput(<<97>>)>> \o t : t \in InputTuples(BuilderInputs, MaxInputs) }

(***************************************************************************)
(* Errors (src/src/error.rs) and the Output extractors                     *)
(* (src/src/output.rs).  An exit status is its exit code; it is a success  *)
(* iff the code is 0.                                                      *)
(***************************************************************************)
\* a status that counts as a success whatever the code
AnyStatus(exit_status) == TRUE

\* ExitStatus::success
Success(exit_status) == exit_status = 0

NoExecutableGiven == [kind |-> "NoExecutableGiven"]

FileNotFound(executable, source) ==
    [kind |-> "FileNotFound", executable |-> executable, source |-> source]

CommandIoError(c, source) ==
    [kind |-> "CommandIoError", full_command |-> FullCommand(c),
     source |-> source]

NonZeroExitCode(c, exit_status) ==
    [kind |-> "NonZeroExitCode", full_command |-> FullCommand(c),
     exit_status |-> exit_status]

InvalidUtf8ToStdout(c) ==
    [kind |-> "InvalidUtf8ToStdout", full_command |-> FullCommand(c)]

InvalidUtf8ToStderr(c) ==
    [kind |-> "InvalidUtf8ToStderr", full_command |-> FullCommand(c)]

Internal(message, c) ==
    [kind |-> "Internal", message |-> message,
     full_command |-> FullCommand(c)]

Ok(v) == [kind |-> "Ok", value |-> v]

\* a decoding that takes every byte string, as String::from_utf8_lossy does
AnyBytes(bytes) == TRUE

\* String::from_utf8 succeeds: the model's byte strings hold single bytes
\* only, and a single byte is valid UTF-8 iff it is below 0x80
ValidUtf8(bytes) == \A i \in DOMAIN bytes : bytes[i] < 128

RECURSIVE TrimStart(_)
TrimStart(s) ==
    IF s # <<>> /\ IsWhitespace(Head(s)) THEN TrimStart(Tail(s)) ELSE s

RECURSIVE TrimEnd(_)
TrimEnd(s) ==
    IF s # <<>> /\ IsWhitespace(s[Len(s)])
    THEN TrimEnd(SubSeq(s, 1, Len(s) - 1)) ELSE s

\* a trimming of the end only
TrimEndOnly(s) == TrimEnd(s)

\* str::trim
Trim(s) == TrimEnd(TrimStart(s))

\* the extractors the model runs with, as base extractors and tuples
Extractors ==
    {"Unit", "StdoutTrimmed", "StdoutUntrimmed", "Stderr", "Status", "bool"}

OutputTypes ==
    { <<e>> : e \in Extractors } \cup
    { <<"StdoutTrimmed", "Status">>, <<"Status", "StdoutTrimmed">>,
      <<"StdoutUntrimmed", "Stderr">>, <<"Stderr", "bool">> }

\* a configure that flips the flags instead of setting them
ConfigureOneFlipping(e, c) ==
    CASE e \in {"StdoutTrimmed", "StdoutUntrimmed"} ->
             [c EXCEPT !.capture_stdout = ~@]
      [] e = "Stderr" -> [c EXCEPT !.capture_stderr = ~@]
      [] e \in {"Status", "bool"} ->
             [c EXCEPT !.error_on_non_zero_exit_code = ~@]
      [] OTHER -> c

\* a StdoutTrimmed that does not configure as StdoutUntrimmed does
ConfigureOneUntrimmedOnly(e, c) ==
    CASE e = "StdoutUntrimmed" -> [c EXCEPT !.capture_stdout = TRUE]
      [] e = "Stderr" -> [c EXCEPT !.capture_stderr = TRUE]
      [] e \in {"Status", "bool"} ->
             [c EXCEPT !.error_on_non_zero_exit_code = FALSE]
      [] OTHER -> c

\* <T as Output>::configure for a base extractor
ConfigureOne(e, c) ==
    CASE e \in {"StdoutTrimmed", "StdoutUntrimmed"} ->
             [c EXCEPT !.capture_stdout = TRUE]
      [] e = "Stderr" -> [c EXCEPT !.capture_stderr = TRUE]
      [] e \in {"Status", "bool"} ->
             [c EXCEPT !.error_on_non_zero_exit_code = FALSE]
      [] OTHER -> c

\* a tuple that configures for its first member only
OutputConfigureFirst(type, c) == ConfigureOne(Head(type), c)

\* tuple_impl::configure: the members' configure, in order
RECURSIVE OutputConfigure(_, _)
OutputConfigure(type, c) ==
    IF type = <<>> THEN c
    ELSE OutputConfigure(Tail(type), ConfigureOne(Head(type), c))

StdoutUntrimmedFrom(c, child_output) ==
    IF ~child_output.stdout.some THEN Internal("stdout not captured", c)
    ELSE IF ~ValidUtf8(child_output.stdout.val) THEN InvalidUtf8ToStdout(c)
    ELSE Ok(child_output.stdout.val)

\* <T as Output>::from_child_output for a base extractor
FromChildOutputOne(e, c, child_output) ==
    CASE e = "Unit" -> Ok(<<>>)
      [] e = "StdoutUntrimmed" -> StdoutUntrimmedFrom(c, child_output)
      [] e = "StdoutTrimmed" ->
             LET r == StdoutUntrimmedFrom(c, child_output)
             IN IF r.kind = "Ok" THEN Ok(Trim(r.value)) ELSE r
      [] e = "Stderr" ->
             IF ~child_output.stderr.some
             THEN Internal("stderr not captured", c)
             ELSE IF ~ValidUtf8(child_output.stderr.val)
             THEN InvalidUtf8ToStderr(c)
             ELSE Ok(child_output.stderr.val)
      [] e = "Status" -> Ok(child_output.exit_status)
      [] e = "bool" -> Ok(Success(child_output.exit_status))

\* an extraction that converts every member and returns the last error
RECURSIVE FromChildOutputLastError(_, _, _, _)
FromChildOutputLastError(type, c, child_output, values) ==
    IF type = <<>> THEN Ok(values)
    ELSE LET r == FromChildOutputOne(Head(type), c, child_output)
             rest == FromChildOutputLastError(
                         Tail(type), c, child_output,
                         IF r.kind = "Ok" THEN Append(values, r.value)
                         ELSE values)
         IN IF rest.kind = "Ok" /\ r.kind # "Ok" THEN r ELSE rest

\* tuple_impl::from_child_output: the members in order, `?` on each
RECURSIVE FromChildOutput(_, _, _, _)
FromChildOutput(type, c, child_output, values) ==
    IF type = <<>> THEN Ok(values)
    ELSE LET r == FromChildOutputOne(Head(type), c, child_output)
         IN IF r.kind # "Ok" THEN r
            ELSE FromChildOutput(Tail(type), c, child_output,
                                 Append(values, r.value))

(***************************************************************************)
(* The two forms of a call (src/src/input.rs, src/src/error.rs).  A        *)
(* message is its format and the values put into it.                       *)
(***************************************************************************)
\* <Error as Display>::fmt
Display(error) ==
    CASE error.kind = "NoExecutableGiven" ->
             [format |-> "no arguments given", arguments |-> <<>>]
      [] error.kind = "FileNotFound" ->
             LET executable == ToStringLossy(error.executable)
                 words == SplitWhitespace(executable, <<>>, <<>>)
             IN IF Len(words) >= 2
                THEN [format |-> "File not found error when executing '{}'\n{}",
                      arguments |-> <<executable>> \o words]
                ELSE [format |-> "File not found error when executing '{}'",
                      arguments |-> <<executable>>]
      [] error.kind = "CommandIoError" ->
             [format |-> "{}:\n  {}",
              arguments |-> <<error.full_command, error.source>>]
      [] error.kind = "NonZeroExitCode" ->
             [format |-> "{}:\n  exited with exit code: {}",
              arguments |-> <<error.full_command, error.exit_status>>]
      [] error.kind = "InvalidUtf8ToStdout" ->
             [format |-> "{}:\n  invalid utf-8 written to stdout",
              arguments |-> <<error.full_command>>]
      [] error.kind = "InvalidUtf8ToStderr" ->
             [format |-> "{}:\n  invalid utf-8 written to stderr",
              arguments |-> <<error.full_command>>]
      [] error.kind = "Internal" ->
             [format |-> "Congratulations, you've found a bug in cradle! {}",
              arguments |-> <<error.message, error.full_command>>]

\* the caller gets a value back
Returns(v) == [kind |-> "Returns", value |-> v]

\* the call panics
Panics(prefix, message) ==
    [kind |-> "Panics", prefix |-> prefix, message |-> message]

\* a call form that hands every result to the caller, errors too
PanicOnNothing(r) == Returns(r)

\* panic_on_error
PanicOnError(r) ==
    IF r.kind = "Ok" THEN Returns(r.value)
    ELSE Panics("cradle error: ", Display(r))

CallForms == {"run_result", "run_output"}

\* Input::run_result returns the result, Input::run_output is
\* panic_on_error(self.run_result())
CallOutcome(form, r) ==
    IF form = "run_output" THEN PanicOnError(r) ELSE Returns(r)

(***************************************************************************)
(* The child process.  A program is a sequence of instructions:            *)
(*   "out"      write one byte to stdout (blocks while the pipe is full)   *)
(*   "err"      write one byte to stderr (blocks while the pipe is full)   *)
(*   "bad"      write the byte 0x80, which is no UTF-8, to stdout           *)
(*   "read"     read stdin until end of file                               *)
(*   "closein"  close stdin                                                *)
(*   "wait"     sleep until the file exists (an external signal)           *)
(* and a process that has run its program exits with some exit code.       *)
(* The programs are those of src/src/test_executables/helper.rs and of the *)
(* back-pressure scenarios.                                                *)
(***************************************************************************)
Fill(instruction) == [i \in 1..(PipeCapacity + 1) |-> instruction]

\* more than a pipe holds to each stream, in turns
Alternate ==
    [i \in 1..(2 * (PipeCapacity + 1)) |->
        IF i % 2 = 1 THEN "out" ELSE "err"]

Programs ==
    { <<>>,                              \* "exit code 42", true, false
      <<"out">>,                         \* "output foo and exit with 42"
      <<"err">>,                         \* "write to stderr"
      <<"bad">>,                         \* "invalid utf-8 stdout"
      <<"read", "out">>,                 \* "reverse"
      <<"read">>,                        \* "wait until stdin is closed"
      <<"closein", "out">>,              \* closes stdin, goes on
      <<"out", "wait", "out">>,          \* "stream chunk then wait for file"
      <<"err", "wait", "err">>,          \* the same on stderr
      Fill("out") \o <<"read">>,         \* fills stdout before reading
      Fill("err") \o <<"read">> }        \* fills stderr before reading

\* the executable "i" writes to both streams: more than a pipe holds to
\* each, one stream after the other in either order, or in turns
StreamsHelper == <<105>>

StreamPrograms ==
    { Fill("out") \o Fill("err"), Fill("err") \o Fill("out"), Alternate }

\* the executable decides what the child does
ProgramsOf(executable) ==
    IF executable = StreamsHelper THEN StreamPrograms ELSE Programs

ExitCodes == {0, 1, 42}

\* the byte of "invalid utf-8 stdout"
INVALID == 128

\* outcomes of Command::spawn: success, or an io::Error of some kind
SpawnOutcomes == {"Spawned", "NotFound", "PermissionDenied"}

VARIABLES
    input,          \* the Input of the call: a tuple of inputs
    callForm,       \* the form of the call: run_result or run_output
    context,        \* the Context of the call: how its streams take writes
    config,         \* the Config of the invocation
    outputType,     \* the Output type O of the invocation
    pc,             \* where the parent's call is
    result,         \* what run_result has returned (kind "None" before)
    outcome,        \* what the call form has handed to the caller
    exit_status,    \* the status child.wait() has returned, -1 before
    collected,      \* the CollectedOutput being joined
    child,          \* the child process
    stdinPipe,      \* the three pipes: bytes in flight and open ends
    stdoutPipe,
    stderrPipe,
    feeder,         \* the stdin thread
    stdoutThread,   \* the stdout relaying thread
    stderrThread,   \* the stderr relaying thread
    parentStdout,   \* what has been written to context.stdout
    parentStderr,   \* what has been written to context.stderr
    childWrote,     \* history: what the child has written to each stream
    childRead,      \* history: what the child has read from stdin
    fileExists      \* the external signal a waiting child polls

vars ==
    << input, callForm, context, config, outputType, pc, result, outcome, exit_status,
       collected, child,
       stdinPipe, stdoutPipe, stderrPipe, feeder, stdoutThread,
       stderrThread, parentStdout, parentStderr, childWrote, childRead,
       fileExists >>

\* the call as it was written: it does not change during the call
callVars == << input, callForm, context >>

parentVars ==
    << input, callForm, context, config, outputType, pc, result, outcome, exit_status,
       collected >>

threadVars == << feeder, stdoutThread, stderrThread >>

pipeVars == << stdinPipe, stdoutPipe, stderrPipe >>

sinkVars == << parentStdout, parentStderr >>

childVars == << child, childWrote, childRead, fileExists >>

NoPipe == [buf |-> <<>>, reader |-> FALSE, writer |-> FALSE]

OpenPipe == [buf |-> <<>>, reader |-> TRUE, writer |-> TRUE]

NotStarted == [pc |-> "not started", buffer |-> <<>>, collected |-> None,
               result |-> "None"]

NoEnvironment == [k \in EnvKeys |-> None]

\* how a stream of the Context takes a write: it takes the bytes, it
\* returns an io::Error, or it panics
SinkModes == {"ok", "fails", "panics"}

Contexts == [stdout : SinkModes, stderr : SinkModes]

\* Context::production() with both standard streams open
Production == [stdout |-> "ok", stderr |-> "ok"]

\* the call is entered: run_result_with_context starts from
\* Config::default()
InitOf(inputs, outputTypes, callForms, contexts) ==
    /\ input \in inputs
    /\ context \in contexts
    /\ outputType \in outputTypes
    /\ callForm \in callForms
    /\ config = DefaultConfig
    /\ pc = "inputs"
    /\ result = [kind |-> "None"]
    /\ outcome = [kind |-> "None"]
    /\ exit_status = -1
    /\ collected = [stdout |-> None, stderr |-> None]
    /\ child = [state |-> "none", program |-> <<>>, ip |-> 1,
                exit_code |-> -1, environment |-> NoEnvironment]
    /\ stdinPipe = NoPipe
    /\ stdoutPipe = NoPipe
    /\ stderrPipe = NoPipe
    /\ feeder = [pc |-> "not started", written |-> 0, result |-> "None"]
    /\ stdoutThread = NotStarted
    /\ stderrThread = NotStarted
    /\ parentStdout = <<>>
    /\ parentStderr = <<>>
    /\ childWrote = [stdout |-> <<>>, stderr |-> <<>>]
    /\ childRead = <<>>
    /\ fileExists = FALSE

InitWith(inputs, outputTypes, callForms) ==
    InitOf(inputs, outputTypes, callForms, {Production})

Init ==
    InitWith(RelayInputs(ArgumentLists, BOOLEAN), OutputTypes, {"run_result"})

\* the invocations of the liveness checks: without LogCommand, with no
\* argument or one, and with one output type for each combination of
\* captured streams
LiveArgumentLists == { <<>>, << <<97>> >> }

LiveOutputTypes ==
    { <<"Unit">>, <<"StdoutTrimmed", "Status">>, <<"Stderr", "bool">>,
      <<"StdoutUntrimmed", "Stderr">> }

LiveInit ==
    InitWith(RelayInputs(LiveArgumentLists, {FALSE}), LiveOutputTypes,
             {"run_result"})

\* the calls that exercise the builders, with the unit output
BuilderInit == InitWith(BuilderCalls, {<<"Unit">>}, {"run_result"})

\* the calls whose Context has streams that fail or panic
FaultInit ==
    InitOf(RelayInputs({ << <<97>> >> }, {FALSE}), LiveOutputTypes,
           CallForms, Contexts)

\* the calls of the executable that writes to both streams
StreamsInit ==
    InitWith({ InputsOf(<<StreamsHelper>>, FALSE, n) : n \in 0..1 },
             LiveOutputTypes, {"run_result"})

\* the calls in both forms
CallInit ==
    InitWith(RelayInputs(ArgumentLists, {FALSE}), LiveOutputTypes, CallForms)

(***************************************************************************)
(* The parent's call: ChildOutput::run_child_process_output and            *)
(* ChildOutput::run_child_process (src/src/child_output.rs).               *)
(***************************************************************************)
\* the call is over: run_result has its result, and the call form hands
\* it to the caller or panics
Return(r) ==
    /\ pc' = "returned"
    /\ result' = r
    /\ outcome' = CallOutcome(callForm, r)

\* a panic unwinds the call: nothing is returned, in either call form
Unwind(message) ==
    /\ pc' = "panicked"
    /\ result' = result
    /\ outcome' = Panics(message, [format |-> "{:?}", arguments |-> <<>>])

\* run_result_with_context: input.configure(&mut config)
RunResultWithContext ==
    /\ pc = "inputs"
    /\ config' = InputConfigure(input, config)
    /\ pc' = "configure"
    /\ UNCHANGED << callVars, outputType, result, outcome, exit_status,
                    collected >>
    /\ UNCHANGED << threadVars, pipeVars, sinkVars, childVars >>

\* <T as Output>::configure(&mut config)
Configure ==
    /\ pc = "configure"
    /\ config' = OutputConfigure(outputType, config)
    /\ pc' = "parse_input"
    /\ UNCHANGED << callVars, outputType, result, outcome, exit_status,
                    collected >>
    /\ UNCHANGED << threadVars, pipeVars, sinkVars, childVars >>

\* a call that logs the command before it looks for the executable
ParseInputAfterLogging ==
    /\ pc = "parse_input"
    /\ parentStderr' = IF config.log_command
                       THEN parentStderr \o <<PLUS, SPACE>>
                                \o FullCommand(config) \o <<NEWLINE>>
                       ELSE parentStderr
    /\ IF config.arguments = <<>>
       THEN Return(NoExecutableGiven)
       ELSE pc' = "log_command" /\ UNCHANGED << result, outcome >>
    /\ UNCHANGED << callVars, config, outputType, exit_status, collected >>
    /\ UNCHANGED << threadVars, pipeVars, parentStdout, childVars >>

\* Self::parse_input(config.arguments.clone())?
ParseInput ==
    /\ pc = "parse_input"
    /\ IF config.arguments = <<>>
       THEN Return(NoExecutableGiven)
       ELSE pc' = "log_command" /\ UNCHANGED << result, outcome >>
    /\ UNCHANGED << callVars, config, outputType, exit_status, collected >>
    /\ UNCHANGED << threadVars, pipeVars, sinkVars, childVars >>

\* a logging that writes the line twice
LogLineTwice(c) ==
    <<PLUS, SPACE>> \o FullCommand(c) \o <<NEWLINE>>
        \o <<PLUS, SPACE>> \o FullCommand(c) \o <<NEWLINE>>

\* the line of `writeln!(context.stderr, "+ {}", config.full_command())`
LogLine(c) == <<PLUS, SPACE>> \o FullCommand(c) \o <<NEWLINE>>

\* a logging that goes on to spawn whatever the write returns
LogCommandIgnoringError ==
    /\ pc = "log_command"
    /\ parentStderr' = IF config.log_command /\ context.stderr = "ok"
                       THEN parentStderr \o LogLine(config)
                       ELSE parentStderr
    /\ pc' = "spawn"
    /\ UNCHANGED << callVars, config, outputType, result, outcome, exit_status,
                    collected >>
    /\ UNCHANGED << threadVars, pipeVars, parentStdout, childVars >>

\* if config.log_command { writeln!(...).map_err(command_io_error)? }
LogCommand ==
    /\ pc = "log_command"
    /\ IF config.log_command /\ context.stderr # "ok"
       THEN /\ IF context.stderr = "panics"
               THEN Unwind("context.stderr panicked")
               ELSE Return(CommandIoError(config, "Other"))
            /\ UNCHANGED parentStderr
       ELSE /\ parentStderr' = IF config.log_command
                               THEN parentStderr \o LogLine(config)
                               ELSE parentStderr
            /\ pc' = "spawn"
            /\ UNCHANGED << result, outcome >>
    /\ UNCHANGED << callVars, config, outputType, exit_status, collected >>
    /\ UNCHANGED << threadVars, pipeVars, parentStdout, childVars >>

\* a spawn error that is not told apart by its kind
SpawnErrorWithoutKind(c, executable, source) == CommandIoError(c, source)

\* the error of a failed command.spawn()
SpawnError(c, executable, source) ==
    IF source = "NotFound"
    THEN FileNotFound(executable, source)
    ELSE CommandIoError(c, source)

\* command.spawn() with the three pipes
Spawn ==
    /\ pc = "spawn"
    /\ \E spawned \in SpawnOutcomes,
          program \in ProgramsOf(Head(config.arguments)) :
          IF spawned = "Spawned"
          THEN /\ child' = [state |-> "running", program |-> program,
                            ip |-> 1, exit_code |-> -1,
                            environment |->
                                CommandEnvs(ParentEnvironment,
                                    config.added_environment_variables)]
               /\ stdinPipe' = OpenPipe
               /\ stdoutPipe' = OpenPipe
               /\ stderrPipe' = OpenPipe
               /\ pc' = "relay"
               /\ UNCHANGED << result, outcome >>
          ELSE /\ Return(SpawnError(config, Head(config.arguments), spawned))
               /\ UNCHANGED << child, pipeVars >>
    /\ UNCHANGED << callVars, config, outputType, exit_status, collected >>
    /\ UNCHANGED << threadVars, sinkVars, childWrote, childRead, fileExists >>

\* a relay that leaves the stderr thread out
SpawnWithoutStderrRelaying ==
    /\ pc = "relay"
    /\ feeder' = [pc |-> "running", written |-> 0, result |-> "None"]
    /\ stdoutThread' = [pc |-> "read", buffer |-> <<>>,
                        collected |-> IF config.capture_stdout
                                      THEN Some(<<>>) ELSE None,
                        result |-> "None"]
    /\ pc' = "wait"
    /\ UNCHANGED << callVars, config, outputType, result, outcome, exit_status,
                    collected, stderrThread >>
    /\ UNCHANGED << pipeVars, sinkVars, childVars >>

\* a serial relay: the payload is written before the drainers are started
SpawnSerialRelaying ==
    /\ pc = "relay"
    /\ feeder.pc # "running"
    /\ IF feeder.pc = "not started"
       THEN /\ feeder' = [pc |-> "running", written |-> 0, result |-> "None"]
            /\ UNCHANGED << pc, stdoutThread, stderrThread >>
       ELSE /\ stdoutThread' = [pc |-> "read", buffer |-> <<>>,
                                collected |-> IF config.capture_stdout
                                              THEN Some(<<>>) ELSE None,
                                result |-> "None"]
            /\ stderrThread' = [pc |-> "read", buffer |-> <<>>,
                                collected |-> Some(<<>>), result |-> "None"]
            /\ pc' = "wait"
            /\ UNCHANGED feeder
    /\ UNCHANGED << callVars, config, outputType, result, outcome, exit_status,
                    collected >>
    /\ UNCHANGED << pipeVars, sinkVars, childVars >>

\* Waiter::spawn_standard_stream_relaying: the three thread::spawn
SpawnStandardStreamRelaying ==
    /\ pc = "relay"
    /\ feeder' = [pc |-> "running", written |-> 0, result |-> "None"]
    /\ stdoutThread' = [pc |-> "read", buffer |-> <<>>,
                        collected |-> IF config.capture_stdout
                                      THEN Some(<<>>) ELSE None,
                        result |-> "None"]
    /\ stderrThread' = [pc |-> "read", buffer |-> <<>>,
                        collected |-> Some(<<>>), result |-> "None"]
    /\ pc' = "wait"
    /\ UNCHANGED << callVars, config, outputType, result, outcome, exit_status,
                    collected >>
    /\ UNCHANGED << pipeVars, sinkVars, childVars >>

\* an exit-status check that ignores the policy of the output type
MustFailWithoutPolicy(c, status) == ~Success(status)

\* ChildOutput::check_exit_status
MustFail(c, status) == c.error_on_non_zero_exit_code /\ ~Success(status)

\* a wait that checks the exit status before the threads are joined
WaitAndCheckExitStatus ==
    /\ pc = "wait"
    /\ child.state = "exited"
    /\ exit_status' = child.exit_code
    /\ IF MustFail(config, child.exit_code)
       THEN Return(NonZeroExitCode(config, child.exit_code))
       ELSE pc' = "join_stdin" /\ UNCHANGED << result, outcome >>
    /\ UNCHANGED << callVars, config, outputType, collected >>
    /\ UNCHANGED << threadVars, pipeVars, sinkVars, childVars >>

\* child.wait(): blocks until the child has exited
Wait ==
    /\ pc = "wait"
    /\ child.state = "exited"
    /\ exit_status' = child.exit_code
    /\ pc' = "join_stdin"
    /\ UNCHANGED << callVars, config, outputType, result, outcome, collected >>
    /\ UNCHANGED << threadVars, pipeVars, sinkVars, childVars >>

\* a join that drops the result of the stdin thread
JoinStdinIgnoringError ==
    /\ pc = "join_stdin"
    /\ feeder.pc = "done"
    /\ pc' = "join_stdout"
    /\ UNCHANGED << result, outcome >>
    /\ UNCHANGED << callVars, config, outputType, exit_status, collected >>
    /\ UNCHANGED << threadVars, pipeVars, sinkVars, childVars >>

\* Waiter::join: self.stdin.join()...?
JoinStdin ==
    /\ pc = "join_stdin"
    /\ feeder.pc = "done"
    /\ IF feeder.result = "Ok"
       THEN pc' = "join_stdout" /\ UNCHANGED << result, outcome >>
       ELSE Return(CommandIoError(config, feeder.result))
    /\ UNCHANGED << callVars, config, outputType, exit_status, collected >>
    /\ UNCHANGED << threadVars, pipeVars, sinkVars, childVars >>

\* Waiter::join: stdout: self.stdout.join()...?
JoinStdout ==
    /\ pc = "join_stdout"
    /\ stdoutThread.pc = "done"
    /\ IF stdoutThread.result = "Ok"
       THEN /\ collected' =
                  [collected EXCEPT !.stdout = stdoutThread.collected]
            /\ pc' = "join_stderr"
            /\ UNCHANGED << result, outcome >>
       ELSE /\ IF stdoutThread.result = "Panicked"
               THEN Unwind("stdout relaying thread panicked")
               ELSE Return(CommandIoError(config, stdoutThread.result))
            /\ UNCHANGED collected
    /\ UNCHANGED << callVars, config, outputType, exit_status >>
    /\ UNCHANGED << threadVars, pipeVars, sinkVars, childVars >>

\* Waiter::join: stderr: self.stderr.join()...?
JoinStderr ==
    /\ pc = "join_stderr"
    /\ stderrThread.pc = "done"
    /\ IF stderrThread.result = "Ok"
       THEN /\ collected' =
                  [collected EXCEPT !.stderr = stderrThread.collected]
            /\ pc' = "check_exit_status"
            /\ UNCHANGED << result, outcome >>
       ELSE /\ IF stderrThread.result = "Panicked"
               THEN Unwind("stderr relaying thread panicked")
               ELSE Return(CommandIoError(config, stderrThread.result))
            /\ UNCHANGED collected
    /\ UNCHANGED << callVars, config, outputType, exit_status >>
    /\ UNCHANGED << threadVars, pipeVars, sinkVars, childVars >>

CheckExitStatus ==
    /\ pc = "check_exit_status"
    /\ IF MustFail(config, exit_status)
       THEN Return(NonZeroExitCode(config, exit_status))
       ELSE pc' = "from_child_output" /\ UNCHANGED << result, outcome >>
    /\ UNCHANGED << callVars, config, outputType, exit_status, collected >>
    /\ UNCHANGED << threadVars, pipeVars, sinkVars, childVars >>

\* the ChildOutput that run_child_process returns
ChildOutputOf(c, status) ==
    [stdout |-> c.stdout, stderr |-> c.stderr, exit_status |-> status]

\* T::from_child_output(&config, &child_output)
FromChildOutputStep ==
    /\ pc = "from_child_output"
    /\ Return(FromChildOutput(outputType, config,
                              ChildOutputOf(collected, exit_status), <<>>))
    /\ UNCHANGED << callVars, config, outputType, exit_status, collected >>
    /\ UNCHANGED << threadVars, pipeVars, sinkVars, childVars >>

Parent ==
    \/ RunResultWithContext
    \/ Configure
    \/ ParseInput
    \/ LogCommand
    \/ Spawn
    \/ SpawnStandardStreamRelaying
    \/ Wait
    \/ JoinStdin
    \/ JoinStdout
    \/ JoinStderr
    \/ CheckExitStatus
    \/ FromChildOutputStep

(***************************************************************************)
(* The three threads of Waiter::spawn_standard_stream_relaying             *)
(* (src/src/collected_output.rs).                                          *)
(***************************************************************************)
\* what one write(2) of write_all moves into the pipe
WriteLength(c, f, pipe) ==
    Min(PipeCapacity - Len(pipe.buf), Len(c.stdin) - f.written)

\* a feeder that keeps the handle of the child's stdin alive
KeepChildStdin(pipe) == pipe

\* the closure of the stdin thread ends: child_stdin, which was moved into
\* it, is dropped, and that closes the parent's end of the pipe
DropChildStdin(pipe) == [pipe EXCEPT !.writer = FALSE]

\* child_stdin.write_all(&config_stdin)?: one write to the pipe, which
\* blocks while the pipe is full and fails once the pipe has no reader
FeederWrite ==
    /\ feeder.pc = "running"
    /\ feeder.written < Len(config.stdin)
    /\ \/ /\ ~stdinPipe.reader
          /\ feeder' = [feeder EXCEPT !.pc = "done", !.result = "BrokenPipe"]
          /\ stdinPipe' = DropChildStdin(stdinPipe)
       \/ /\ stdinPipe.reader
          /\ Len(stdinPipe.buf) < PipeCapacity
          /\ LET n == WriteLength(config, feeder, stdinPipe)
             IN /\ stdinPipe' =
                      [stdinPipe EXCEPT !.buf =
                          @ \o SubSeq(config.stdin, feeder.written + 1,
                                      feeder.written + n)]
                /\ feeder' = [feeder EXCEPT !.written = @ + n]
    /\ UNCHANGED << parentVars, stdoutThread, stderrThread, stdoutPipe,
                    stderrPipe, sinkVars, childVars >>

\* write_all has written everything: Ok(()), and child_stdin is dropped
FeederFinish ==
    /\ feeder.pc = "running"
    /\ feeder.written = Len(config.stdin)
    /\ feeder' = [feeder EXCEPT !.pc = "done", !.result = "Ok"]
    /\ stdinPipe' = DropChildStdin(stdinPipe)
    /\ UNCHANGED << parentVars, stdoutThread, stderrThread, stdoutPipe,
                    stderrPipe, sinkVars, childVars >>

\* read(buffer): blocks while the pipe is empty and has a writer; returns
\* up to BufferSize bytes, or 0 at end of file, which ends the loop
ReadFrom(thread, pipe) ==
    IF pipe.buf # <<>>
    THEN [thread EXCEPT !.pc = "forward",
                        !.buffer = Take(pipe.buf, BufferSize)]
    ELSE [thread EXCEPT !.pc = "done", !.result = "Ok"]

PipeAfterRead(pipe) ==
    IF pipe.buf # <<>>
    THEN [pipe EXCEPT !.buf = Drop(@, BufferSize)]
    ELSE [pipe EXCEPT !.reader = FALSE]

\* a drainer that batches: it reads once the stream is at end of file
CanReadAtEof(pipe) == ~pipe.writer

\* read(buffer) returns once there are bytes, or at end of file
CanRead(pipe) == pipe.buf # <<>> \/ ~pipe.writer

\* a collection that keeps the newest chunk only
ExtendReplacing(option, bytes) == IF option.some THEN Some(bytes) ELSE option

\* collected.extend(&buffer[..length])
Extend(option, bytes) ==
    IF option.some THEN Some(option.val \o bytes) ELSE option

\* a relay that puts the newest chunk first
RelayInFront(capture, sink, bytes) == IF capture THEN sink ELSE bytes \o sink

\* if !capture { sink.write_all(&buffer[..length])? }
Relay(capture, sink, bytes) == IF capture THEN sink ELSE sink \o bytes

\* how that write_all ends: no write when the stream is captured
WriteAll(capture, mode) == IF capture THEN "ok" ELSE mode

\* the thread after one chunk: it goes on reading, or its closure ends
\* with the error of the write or unwinds with its panic
AfterChunk(thread, written) ==
    LET extended == [thread EXCEPT !.buffer = <<>>,
                                   !.collected = Extend(@, thread.buffer)]
    IN CASE written = "ok" -> [extended EXCEPT !.pc = "read"]
         [] written = "fails" ->
                [extended EXCEPT !.pc = "done", !.result = "Other"]
         [] written = "panics" ->
                [extended EXCEPT !.pc = "done", !.result = "Panicked"]

\* the closure of a relaying thread ends early: the handle of the child's
\* stream, which was moved into it, is dropped
DropChildStream(pipe, written) ==
    IF written = "ok" THEN pipe
    ELSE [pipe EXCEPT !.reader = FALSE, !.buf = <<>>]

StdoutRead ==
    /\ stdoutThread.pc = "read"
    /\ CanRead(stdoutPipe)
    /\ stdoutThread' = ReadFrom(stdoutThread, stdoutPipe)
    /\ stdoutPipe' = PipeAfterRead(stdoutPipe)
    /\ UNCHANGED << parentVars, feeder, stderrThread, stdinPipe, stderrPipe,
                    sinkVars, childVars >>

StdoutForward ==
    /\ stdoutThread.pc = "forward"
    /\ LET written == WriteAll(config.capture_stdout, context.stdout)
       IN /\ stdoutThread' = AfterChunk(stdoutThread, written)
          /\ parentStdout' =
                IF written = "ok"
                THEN Relay(config.capture_stdout, parentStdout,
                           stdoutThread.buffer)
                ELSE parentStdout
          /\ stdoutPipe' = DropChildStream(stdoutPipe, written)
    /\ UNCHANGED << parentVars, feeder, stderrThread, stdinPipe, stderrPipe,
                    parentStderr, childVars >>

StderrRead ==
    /\ stderrThread.pc = "read"
    /\ CanRead(stderrPipe)
    /\ stderrThread' = ReadFrom(stderrThread, stderrPipe)
    /\ stderrPipe' = PipeAfterRead(stderrPipe)
    /\ UNCHANGED << parentVars, feeder, stdoutThread, stdinPipe, stdoutPipe,
                    sinkVars, childVars >>

StderrForward ==
    /\ stderrThread.pc = "forward"
    /\ LET written == WriteAll(config.capture_stderr, context.stderr)
       IN /\ stderrThread' = AfterChunk(stderrThread, written)
          /\ parentStderr' =
                IF written = "ok"
                THEN Relay(config.capture_stderr, parentStderr,
                           stderrThread.buffer)
                ELSE parentStderr
          /\ stderrPipe' = DropChildStream(stderrPipe, written)
    /\ UNCHANGED << parentVars, feeder, stdoutThread, stdinPipe, stdoutPipe,
                    parentStdout, childVars >>

Feeder == FeederWrite \/ FeederFinish

StdoutDrainer == StdoutRead \/ StdoutForward

\* a stderr thread that starts once stdout is at its end
StderrDrainerAfterStdout ==
    stdoutThread.pc = "done" /\ (StderrRead \/ StderrForward)

StderrDrainer == StderrRead \/ StderrForward

(***************************************************************************)
(* The child process and the external signal.                              *)
(***************************************************************************)
Running == child.state = "running"

Instruction ==
    IF child.ip <= Len(child.program) THEN child.program[child.ip]
    ELSE "exit"

Advance == child' = [child EXCEPT !.ip = @ + 1]

\* a write to a pipe that has no reader fails: the program ends there
WriteFails ==
    child' = [child EXCEPT !.ip = Len(child.program) + 1]

ChildOut ==
    /\ Running /\ Instruction = "out"
    /\ IF stdoutPipe.reader
       THEN /\ Len(stdoutPipe.buf) < PipeCapacity
            /\ LET b == StdoutByte(Len(childWrote.stdout) + 1)
               IN /\ stdoutPipe' = [stdoutPipe EXCEPT !.buf = Append(@, b)]
                  /\ childWrote' =
                        [childWrote EXCEPT !.stdout = Append(@, b)]
            /\ Advance
       ELSE WriteFails /\ UNCHANGED << stdoutPipe, childWrote >>
    /\ UNCHANGED << parentVars, threadVars, stdinPipe, stderrPipe, sinkVars,
                    childRead, fileExists >>

\* io::stdout().write_all(&[0x80])
ChildOutInvalid ==
    /\ Running /\ Instruction = "bad"
    /\ IF stdoutPipe.reader
       THEN /\ Len(stdoutPipe.buf) < PipeCapacity
            /\ stdoutPipe' = [stdoutPipe EXCEPT !.buf = Append(@, INVALID)]
            /\ childWrote' =
                  [childWrote EXCEPT !.stdout = Append(@, INVALID)]
            /\ Advance
       ELSE WriteFails /\ UNCHANGED << stdoutPipe, childWrote >>
    /\ UNCHANGED << parentVars, threadVars, stdinPipe, stderrPipe, sinkVars,
                    childRead, fileExists >>

ChildErr ==
    /\ Running /\ Instruction = "err"
    /\ IF stderrPipe.reader
       THEN /\ Len(stderrPipe.buf) < PipeCapacity
            /\ LET b == StderrByte(Len(childWrote.stderr) + 1)
               IN /\ stderrPipe' = [stderrPipe EXCEPT !.buf = Append(@, b)]
                  /\ childWrote' =
                        [childWrote EXCEPT !.stderr = Append(@, b)]
            /\ Advance
       ELSE WriteFails /\ UNCHANGED << stderrPipe, childWrote >>
    /\ UNCHANGED << parentVars, threadVars, stdinPipe, stdoutPipe, sinkVars,
                    childRead, fileExists >>

\* read_to_end on stdin: takes what is in the pipe, and is over at end of
\* file, that is once the pipe is empty and has no writer
ChildRead ==
    /\ Running /\ Instruction = "read"
    /\ \/ /\ stdinPipe.buf # <<>>
          /\ childRead' = childRead \o stdinPipe.buf
          /\ stdinPipe' = [stdinPipe EXCEPT !.buf = <<>>]
          /\ UNCHANGED child
       \/ /\ stdinPipe.buf = <<>>
          /\ ~stdinPipe.writer
          /\ Advance
          /\ UNCHANGED << childRead, stdinPipe >>
    /\ UNCHANGED << parentVars, threadVars, stdoutPipe, stderrPipe, sinkVars,
                    childWrote, fileExists >>

\* the child's ends of the pipes are closed; what nobody can read is lost
ClosedByChild(pipe) == [pipe EXCEPT !.reader = FALSE, !.buf = <<>>]

ChildCloseStdin ==
    /\ Running /\ Instruction = "closein"
    /\ stdinPipe' = ClosedByChild(stdinPipe)
    /\ Advance
    /\ UNCHANGED << parentVars, threadVars, stdoutPipe, stderrPipe, sinkVars,
                    childWrote, childRead, fileExists >>

ChildWait ==
    /\ Running /\ Instruction = "wait"
    /\ fileExists
    /\ Advance
    /\ UNCHANGED << parentVars, threadVars, pipeVars, sinkVars, childWrote,
                    childRead, fileExists >>

\* the process exits: the operating system closes its ends of the pipes
ChildExit ==
    /\ Running /\ Instruction = "exit"
    /\ \E code \in ExitCodes :
          child' = [child EXCEPT !.state = "exited", !.exit_code = code]
    /\ stdinPipe' = ClosedByChild(stdinPipe)
    /\ stdoutPipe' = [stdoutPipe EXCEPT !.writer = FALSE]
    /\ stderrPipe' = [stderrPipe EXCEPT !.writer = FALSE]
    /\ UNCHANGED << parentVars, threadVars, sinkVars, childWrote, childRead,
                    fileExists >>

Child ==
    \/ ChildOut
    \/ ChildOutInvalid
    \/ ChildErr
    \/ ChildRead
    \/ ChildCloseStdin
    \/ ChildWait
    \/ ChildExit

\* somebody creates the file the child is waiting for
TouchFile ==
    /\ Running /\ Instruction = "wait"
    /\ ~fileExists
    /\ fileExists' = TRUE
    /\ UNCHANGED << parentVars, threadVars, pipeVars, sinkVars, child,
                    childWrote, childRead >>

Next ==
    \/ Parent
    \/ Feeder
    \/ StdoutDrainer
    \/ StderrDrainer
    \/ Child
    \/ TouchFile

Spec == Init /\ [][Next]_vars

\* the scheduler is fair to the parent, to each thread and to the child;
\* nobody has to create the file
Fairness ==
    /\ WF_vars(Parent)
    /\ WF_vars(Feeder)
    /\ WF_vars(StdoutDrainer)
    /\ WF_vars(StderrDrainer)
    /\ WF_vars(Child)

LiveSpec == LiveInit /\ [][Next]_vars /\ Fairness

BuilderSpec == BuilderInit /\ [][Next]_vars

(***************************************************************************)
(* The extraction alone: the state of a call of `a` whose child has        *)
(* printed a text to stdout and exited successfully, and whose output has  *)
(* been joined and has passed check_exit_status; then from_child_output.   *)
(***************************************************************************)
\* "f", space, line feed, carriage return
TextBytes == {102, SPACE, NEWLINE, 13}

Texts == UNION { [1..n -> TextBytes] : n \in 0..MaxText }

TextOutputTypes == { <<"StdoutTrimmed">>, <<"StdoutUntrimmed">> }

DonePipe == [buf |-> <<>>, reader |-> FALSE, writer |-> FALSE]

\* the state of a call that has joined its output, for a child that has
\* written one of stdouts and one of stderrs and has exited successfully
ExtractInitWith(types, stdouts, stderrs) ==
    /\ input = <<ArgumentInput(<<97>>)>>
    /\ context = Production
    /\ outputType \in types
    /\ callForm = "run_result"
    /\ config = OutputConfigure(outputType, InputConfigure(input, DefaultConfig))
    /\ pc = "from_child_output"
    /\ result = [kind |-> "None"]
    /\ outcome = [kind |-> "None"]
    /\ exit_status = 0
    /\ \E text \in stdouts, errors \in stderrs :
          LET captured == IF config.capture_stdout THEN Some(text) ELSE None
          IN /\ childWrote = [stdout |-> text, stderr |-> errors]
             /\ collected = [stdout |-> captured, stderr |-> Some(errors)]
             /\ stdoutThread = [pc |-> "done", buffer |-> <<>>,
                                collected |-> captured, result |-> "Ok"]
             /\ stderrThread = [pc |-> "done", buffer |-> <<>>,
                                collected |-> Some(errors), result |-> "Ok"]
             /\ child = [state |-> "exited",
                         program |-> [i \in 1..Len(text) |-> "out"]
                                        \o [i \in 1..Len(errors) |-> "err"],
                         ip |-> Len(text) + Len(errors) + 1, exit_code |-> 0,
                         environment |-> ParentEnvironment]
             /\ parentStdout = IF config.capture_stdout THEN <<>> ELSE text
             /\ parentStderr = IF config.capture_stderr THEN <<>> ELSE errors
    /\ feeder = [pc |-> "done", written |-> 0, result |-> "Ok"]
    /\ stdinPipe = DonePipe
    /\ stdoutPipe = DonePipe
    /\ stderrPipe = DonePipe
    /\ childRead = <<>>
    /\ fileExists = FALSE

ExtractInit == ExtractInitWith(TextOutputTypes, Texts, {<<>>})

ExtractSpec == ExtractInit /\ [][FromChildOutputStep]_vars

\* the extraction of tuples from streams that may hold the byte 0x80
MixedTexts == UNION { [1..n -> {102, INVALID}] : n \in 0..(MaxText - 1) }

TupleOutputTypes ==
    { <<"StdoutUntrimmed", "Stderr">>, <<"Stderr", "StdoutUntrimmed">>,
      <<"Stderr", "StdoutTrimmed", "Status">>, <<"bool", "Stderr">> }

TupleExtractInit == ExtractInitWith(TupleOutputTypes, MixedTexts, MixedTexts)

TupleExtractSpec == TupleExtractInit /\ [][FromChildOutputStep]_vars

(***************************************************************************)
(* The return types of cmd! (src/src/cmd_output.rs): CmdOutput with its    *)
(* prepare_config and from_run_result.  A type is a tuple of members (one  *)
(* member stands for the member type itself), wrapped in Result or not.    *)
(* Its Config has relay_stdout, relay_stderr and                           *)
(* error_on_non_zero_exit_code; its errors carry no command.               *)
(***************************************************************************)
\* the width of usize in the model; every length is far below 2^UsizeBits
UsizeBits == 8

\* the builds: overflow checks are on in debug and off in release
Builds == {"debug", "release"}

Panic(message) == [kind |-> "Panic", message |-> message]

CmdMembers ==
    { <<"Unit">>, <<"String">>, <<"UntrimmedStdout">>, <<"Exit">>,
      <<"Stderr">>, <<"String", "Exit">>, <<"Stderr", "String">> }

CmdTypes == [wrapped : BOOLEAN, members : CmdMembers]

CmdConfigs ==
    [relay_stdout : BOOLEAN, relay_stderr : BOOLEAN,
     error_on_non_zero_exit_code : BOOLEAN]

\* prepare_config of (), String, UntrimmedStdout, Exit and Stderr
PrepareConfigOne(e, c) ==
    CASE e = "String" -> [c EXCEPT !.relay_stdout = FALSE]
      [] e = "Exit" -> [c EXCEPT !.error_on_non_zero_exit_code = FALSE]
      [] e = "Stderr" -> [c EXCEPT !.relay_stderr = FALSE]
      [] OTHER -> c

\* tuple_impl!: $($generics::prepare_config(config);)+
RECURSIVE PrepareConfigMembers(_, _)
PrepareConfigMembers(members, c) ==
    IF members = <<>> THEN c
    ELSE PrepareConfigMembers(Tail(members), PrepareConfigOne(Head(members), c))

\* Result<T>::prepare_config is T::prepare_config(config)
PrepareConfig(type, c) == PrepareConfigMembers(type.members, c)

\* trim_trailing_newline: input.len() - 2 is a usize subtraction, which
\* panics in debug when it overflows and wraps in release, where the index
\* is then out of bounds
TrimTrailingNewline(string, build) ==
    IF Len(string) > 0 /\ string[Len(string)] = NEWLINE
    THEN IF Len(string) < 2 /\ build = "debug"
         THEN Panic("attempt to subtract with overflow")
         ELSE LET index == (Len(string) - 2) % (2 ^ UsizeBits)
              IN IF index >= Len(string)
                 THEN Panic("index out of bounds")
                 ELSE IF string[index + 1] = 13
                      THEN Ok(Take(string, Len(string) - 2))
                      ELSE Ok(Take(string, Len(string) - 1))
    ELSE Ok(string)

\* from_run_result of (), String, UntrimmedStdout, Exit and Stderr
FromRunResultOne(e, run, build) ==
    IF run.kind # "Ok" THEN run
    ELSE CASE e = "Unit" -> Ok(<<>>)
           [] e = "String" ->
                IF ValidUtf8(run.value.stdout)
                THEN TrimTrailingNewline(run.value.stdout, build)
                ELSE [kind |-> "InvalidUtf8ToStdout"]
           [] e = "UntrimmedStdout" ->
                IF ValidUtf8(run.value.stdout) THEN Ok(run.value.stdout)
                ELSE [kind |-> "InvalidUtf8ToStdout"]
           [] e = "Exit" -> Ok(<<run.value.exit_status>>)
           [] e = "Stderr" ->
                IF ValidUtf8(run.value.stderr) THEN Ok(run.value.stderr)
                ELSE [kind |-> "InvalidUtf8ToStderr"]

\* tuple_impl!: Ok(($($generics::from_run_result(result.clone())?,)+))
RECURSIVE FromRunResultTuple(_, _, _)
FromRunResultTuple(members, run, build) ==
    IF members = <<>> THEN Ok(<<>>)
    ELSE LET first == FromRunResultOne(Head(members), run, build)
         IN IF first.kind # "Ok" THEN first
            ELSE LET rest == FromRunResultTuple(Tail(members), run, build)
                 IN IF rest.kind # "Ok" THEN rest
                    ELSE Ok(<<first.value>> \o rest.value)

FromRunResultMembers(members, run, build) ==
    IF Len(members) = 1 THEN FromRunResultOne(members[1], run, build)
    ELSE FromRunResultTuple(members, run, build)

\* Result<T>::from_run_result: Ok(match result { Ok(_) =>
\* T::from_run_result(result), Err(error) => Err(error) }); a panic of
\* T::from_run_result unwinds through it
FromRunResult(type, run, build) ==
    IF ~type.wrapped THEN FromRunResultMembers(type.members, run, build)
    ELSE IF run.kind # "Ok" THEN Ok(run)
    ELSE LET inner == FromRunResultMembers(type.members, run, build)
         IN IF inner.kind = "Panic" THEN inner ELSE Ok(inner)

\* what a child may have written to stdout
CmdTexts == Texts \cup {<<INVALID>>, <<INVALID, NEWLINE>>}

\* the Result<RunResult> of a run under a configuration: an error, or the
\* output of a child, whose exit code is 0 where the configuration makes
\* another one an error
CmdRuns(c) ==
    { [kind |-> "NonZeroExitCode"], [kind |-> "CommandIoError"] }
    \cup { Ok([stdout |-> text, stderr |-> errors, exit_status |-> code]) :
             text \in CmdTexts, errors \in {<<>>, <<INVALID>>},
             code \in IF c.error_on_non_zero_exit_code THEN {0} ELSE {0, 42} }

\* a call of cmd! before its configuration is prepared; the run it will
\* have had is drawn here
CmdInit ==
    /\ input = <<ArgumentInput(<<97>>)>>
    /\ context = Production
    /\ callForm = "run_result"
    /\ outputType \in CmdTypes
    /\ config \in CmdConfigs
    /\ pc = "prepare_config"
    /\ result = [kind |-> "None"]
    /\ outcome = [kind |-> "None"]
    /\ exit_status = -1
    /\ collected \in CmdRuns(PrepareConfig(outputType, config))
    /\ child = [state |-> "none", program |-> <<>>, ip |-> 1,
                exit_code |-> 0, environment |-> ParentEnvironment]
    /\ stdinPipe = NoPipe
    /\ stdoutPipe = NoPipe
    /\ stderrPipe = NoPipe
    /\ feeder = NotStarted
    /\ stdoutThread = [pc |-> "none", buffer |-> <<>>, collected |-> None,
                       result |-> "Ok"]
    /\ stderrThread = [pc |-> "none", buffer |-> <<>>, collected |-> None,
                       result |-> "Ok"]
    /\ parentStdout = <<>>
    /\ parentStderr = <<>>
    /\ childWrote = [stdout |-> <<>>, stderr |-> <<>>]
    /\ childRead = <<>>
    /\ fileExists = FALSE

\* T::prepare_config(&mut config)
PrepareConfigStep ==
    /\ pc = "prepare_config"
    /\ config' = PrepareConfig(outputType, config)
    /\ pc' = "from_run_result"
    /\ UNCHANGED << callVars, outputType, result, outcome, exit_status,
                    collected >>
    /\ UNCHANGED << threadVars, pipeVars, sinkVars, childVars >>

\* T::from_run_result(result), in either build
FromRunResultStep ==
    /\ pc = "from_run_result"
    /\ \E build \in Builds :
          LET r == FromRunResult(outputType, collected, build)
          IN IF r.kind = "Panic" THEN Unwind(r.message) ELSE Return(r)
    /\ UNCHANGED << callVars, config, outputType, exit_status, collected >>
    /\ UNCHANGED << threadVars, pipeVars, sinkVars, childVars >>

CmdNext == PrepareConfigStep \/ FromRunResultStep

CmdSpec == CmdInit /\ [][CmdNext]_vars

(***************************************************************************)
(* The inputs alone: a call of at most MaxBuilders inputs of every kind,   *)
(* and the step of run_result_with_context that configures them.           *)
(***************************************************************************)
MaxBuilders == MaxInputs + 1

\* " b  c ", "d<TAB>e", " <LF>"
SplitTexts ==
    { <<SPACE, 98, SPACE, SPACE, 99, SPACE>>, <<100, 9, 101>>,
      <<SPACE, NEWLINE>> }

InputBuilders ==
    { ArgumentInput(<<97>>), ArgumentInput(<<SPACE, 98, SPACE, SPACE, 99, SPACE>>),
      VecInput(<< <<98, SPACE, 99>>, <<100>> >>),
      StdinInput(<<97>>), StdinInput(<<98>>),
      EnvInput(<<75>>, <<118>>), EnvInput(<<75>>, <<119>>),
      EnvInput(<<77>>, <<118>>),
      LogCommandInput, CurrentDirInput(<<100>>), CurrentDirInput(<<101>>) }
        \cup { SplitInput(text) : text \in SplitTexts }

InputInit ==
    InitWith(InputTuples(InputBuilders, MaxBuilders), {<<"Unit">>},
             {"run_result"})

InputSpec == InputInit /\ [][RunResultWithContext]_vars

(***************************************************************************)
(* Nested inputs: the calls whose input is a tuple of tuples, sequences,   *)
(* arguments and units, nested at most MaxDepth deep, and the steps of     *)
(* the call up to the spawning of the executable.                          *)
(***************************************************************************)
MaxDepth == MaxInputs

\* "i", (), ["i", "b c"]
NestedLeaves ==
    { ArgumentInput(StreamsHelper), UnitInput,
      VecInput(<< StreamsHelper, <<98, SPACE, 99>> >>) }

\* the inputs nested at most depth deep, a tuple having at most 2 members
RECURSIVE NestedInputs(_)
NestedInputs(depth) ==
    IF depth = 0 THEN NestedLeaves
    ELSE NestedLeaves
            \cup { TupleInput(t) :
                     t \in InputTuples(NestedInputs(depth - 1), 2) }

\* the calls of one nested input, and those of the macros with one to
\* MaxDepth + 1 arguments
NestedCalls ==
    { << i >> : i \in NestedInputs(MaxDepth) }
        \cup { << TupleUp(arguments) >> :
                 arguments \in InputTuples(NestedLeaves, MaxDepth + 1) \ {<<>>} }

NestedInit == InitWith(NestedCalls, {<<"Unit">>}, {"run_result"})

NestedNext ==
    \/ RunResultWithContext
    \/ Configure
    \/ ParseInput
    \/ LogCommand
    \/ Spawn

NestedSpec == NestedInit /\ [][NestedNext]_vars

CallSpec == CallInit /\ [][Next]_vars

FaultSpec == FaultInit /\ [][Next]_vars

\* the calls that log or not, with streams that fail or panic, up to the
\* spawning of the child
LogInit ==
    InitOf(RelayInputs(ArgumentLists, BOOLEAN), LiveOutputTypes, CallForms,
           Contexts)

LogSpec == LogInit /\ [][NestedNext]_vars

\* what the child of that executable does: it writes and exits
StreamsChild == ChildOut \/ ChildErr \/ ChildExit

StreamsNext ==
    \/ Parent
    \/ Feeder
    \/ StdoutDrainer
    \/ StderrDrainer
    \/ StreamsChild

StreamsSpec == StreamsInit /\ [][StreamsNext]_vars /\ Fairness

TypeOK ==
    /\ pc \in {"inputs", "configure", "parse_input", "log_command", "spawn",
               "relay",
               "wait", "join_stdin", "join_stdout", "join_stderr",
               "check_exit_status", "from_child_output", "returned",
               "panicked"}
    /\ context \in Contexts
    /\ Len(stdinPipe.buf) <= PipeCapacity
    /\ Len(stdoutPipe.buf) <= PipeCapacity
    /\ Len(stderrPipe.buf) <= PipeCapacity

(***************************************************************************)
(* Properties.                                                             *)
(***************************************************************************)
Spawned == child.state # "none"

Returned == pc = "returned"

TasksDone ==
    /\ feeder.pc = "done"
    /\ stdoutThread.pc = "done"
    /\ stderrThread.pc = "done"

\* a child that reads no stdin before it has written more than a pipe holds
BackPressurePrograms == { Fill("out") \o <<"read">>, Fill("err") \o <<"read">> }

BackPressure ==
    /\ Spawned
    /\ child.program \in BackPressurePrograms
    /\ Len(config.stdin) > PipeCapacity

\* the parent, the three threads and the child can all not take a step
AllBlocked ==
    ~ENABLED (Parent \/ Feeder \/ StdoutDrainer \/ StderrDrainer \/ Child)

\* C1: under back-pressure (a stdin payload larger than the pipe, a child
\* that fills stdout or stderr before it reads stdin) no state before the
\* return has the parent, the threads and the child all blocked, and under
\* fair scheduling the call returns, the child and the three threads done.
C1_NoDeadlockUnderBackPressure ==
    /\ [](BackPressure /\ ~Returned => ~AllBlocked)
    /\ (BackPressure ~> (Returned /\ child.state = "exited" /\ TasksDone))

\* the feeder is blocked on the full stdin pipe while the child is blocked
\* on a full output pipe: a serial relay would be stuck here
C1_Witness ==
    /\ BackPressure
    /\ feeder.pc = "running"
    /\ feeder.written < Len(config.stdin)
    /\ Len(stdinPipe.buf) = PipeCapacity
    /\ Running
    /\ \/ Instruction = "out" /\ Len(stdoutPipe.buf) = PipeCapacity
       \/ Instruction = "err" /\ Len(stderrPipe.buf) = PipeCapacity

\* no program writes more bytes to a stream than this
MaxChildBytes == PipeCapacity + 1

\* what the stderr sink holds after the log line of LogCommand
RelayedStderr ==
    Drop(parentStderr, IF config.log_command THEN Len(LogLine(config)) ELSE 0)

\* a drainer that is about to read has forwarded all it took from the pipe
ForwardedBeforeNextRead ==
    /\ ~config.capture_stdout /\ stdoutThread.pc = "read"
          => parentStdout \o stdoutPipe.buf = childWrote.stdout
    /\ ~config.capture_stderr /\ stderrThread.pc = "read"
          => RelayedStderr \o stderrPipe.buf = childWrote.stderr

\* C2: when a stream is not captured, a drainer forwards every chunk before
\* it reads again, and each byte the child has written to the stream is
\* eventually written to the parent's stream, also when the child writes
\* nothing more and never exits (nobody has to create the file it waits for).
C2_StreamingNotBatching ==
    /\ []ForwardedBeforeNextRead
    /\ \A n \in 1..MaxChildBytes :
          (~config.capture_stdout /\ Len(childWrote.stdout) >= n)
             ~> (Take(parentStdout, n) = Take(childWrote.stdout, n))
    /\ \A n \in 1..MaxChildBytes :
          (~config.capture_stderr /\ Len(childWrote.stderr) >= n)
             ~> (Take(RelayedStderr, n) = Take(childWrote.stderr, n))

\* the child has emitted a chunk and pauses, nobody has signalled it, and
\* the parent's stream already holds the chunk
C2_Witness ==
    /\ Running /\ Instruction = "wait" /\ ~fileExists
    /\ \/ /\ ~config.capture_stdout
          /\ childWrote.stdout # <<>>
          /\ parentStdout = childWrote.stdout
       \/ /\ ~config.capture_stderr
          /\ childWrote.stderr # <<>>
          /\ RelayedStderr = childWrote.stderr

\* C3: if capture_stdout is set nothing is ever written to the parent's
\* stdout; if it is not set, then once the call has returned the parent's
\* stdout holds exactly the bytes the child wrote to its stdout.
C3_CaptureVersusRelayStdout ==
    /\ config.capture_stdout => parentStdout = <<>>
    /\ ~config.capture_stdout /\ Spawned /\ Returned
          => parentStdout = childWrote.stdout

\* C4: without LogCommand, if capture_stderr is set nothing is written to
\* the parent's stderr; if it is not set, then once the call has returned
\* the parent's stderr holds exactly the bytes the child wrote to its stderr.
C4_CaptureVersusRelayStderr ==
    ~config.log_command =>
        /\ config.capture_stderr => parentStderr = <<>>
        /\ ~config.capture_stderr /\ Spawned /\ Returned
              => parentStderr = childWrote.stderr

HasPolicyExtractor(type) ==
    \E i \in DOMAIN type : type[i] \in {"Status", "bool"}

ExitedUnsuccessfully ==
    Returned /\ child.state = "exited" /\ ~Success(child.exit_code)

\* C5 as stated: an invocation whose child exits unsuccessfully returns
\* NonZeroExitCode, with the full command and the exit status, exactly when
\* error_on_non_zero_exit_code is still true, that is when no Status or bool
\* took part in the output type; with Status the result is Ok and carries
\* the exit code.
C5_Original ==
    ExitedUnsuccessfully =>
        /\ config.error_on_non_zero_exit_code <=> ~HasPolicyExtractor(outputType)
        /\ result.kind = "NonZeroExitCode"
              <=> config.error_on_non_zero_exit_code
        /\ result.kind = "NonZeroExitCode"
              => /\ result.full_command = FullCommand(config)
                 /\ result.exit_status = child.exit_code
        /\ outputType = <<"Status">>
              => result.kind = "Ok" /\ result.value = <<child.exit_code>>

\* C5, amended: the same, provided the stdin feeder has not failed; if it
\* has, the call returns CommandIoError whatever the exit code and the policy.
C5_ExitCodePolicy ==
    ExitedUnsuccessfully =>
        /\ config.error_on_non_zero_exit_code <=> ~HasPolicyExtractor(outputType)
        /\ feeder.result # "Ok" => result.kind = "CommandIoError"
        /\ feeder.result = "Ok" =>
              /\ result.kind = "NonZeroExitCode"
                    <=> config.error_on_non_zero_exit_code
              /\ result.kind = "NonZeroExitCode"
                    => /\ result.full_command = FullCommand(config)
                       /\ result.exit_status = child.exit_code
              /\ outputType = <<"Status">>
                    => result.kind = "Ok" /\ result.value = <<child.exit_code>>

\* the child has exited with code 42 and the call has returned the code,
\* as an error under the default policy
C5_Witness ==
    /\ ExitedUnsuccessfully
    /\ feeder.result = "Ok"
    /\ result.kind = "NonZeroExitCode"
    /\ result.exit_status = 42
    /\ Len(config.arguments) = 2

\* C6: the call never returns while the child or a feeder or drainer task
\* is still running: when it has returned after a successful spawn, the
\* child has exited and the feeder and both drainers have finished.
C6_SynchronousCompletion ==
    Spawned /\ Returned => child.state = "exited" /\ TasksDone

\* the programs that read stdin until end of file
ReadPrograms == { <<"read">>, <<"read", "out">> }

\* C7: the feeder that has written the whole payload (an empty one too)
\* closes the child's stdin: a feeder that is done holds it no longer, a
\* child that reads stdin until end of file gets the whole payload and the
\* end of file, and the invocation completes.
C7_StdinClosedAfterPayload ==
    /\ [](feeder.pc = "done" => ~stdinPipe.writer)
    /\ (feeder.pc = "running" /\ feeder.written = Len(config.stdin))
          ~> ~stdinPipe.writer
    /\ (Spawned /\ child.program \in ReadPrograms)
          ~> (Returned /\ child.state = "exited" /\ childRead = config.stdin)

\* the child, still running, has read the payload and seen the end of file
C7_Witness ==
    /\ Running
    /\ child.program \in ReadPrograms
    /\ child.ip > 1
    /\ childRead = config.stdin
    /\ config.stdin # <<>>
    /\ ~stdinPipe.writer

\* C8: after a broken pipe in the stdin feeder the drainers still drain and
\* relay all output of the child up to the end of file, and then the call
\* returns CommandIoError.
C8_BrokenPipeDoesNotStopDrainers ==
    feeder.result = "BrokenPipe" /\ Returned =>
        /\ result.kind = "CommandIoError"
        /\ stdoutThread.pc = "done"
        /\ stderrThread.pc = "done"
        /\ ~config.capture_stdout => parentStdout = childWrote.stdout
        /\ ~config.capture_stderr => RelayedStderr = childWrote.stderr

\* C9: with no argument the call returns NoExecutableGiven and nothing
\* else happens: no child is spawned, no thread is started, nothing is
\* written to the parent's stdout or stderr, with LogCommand or without.
C9_NoExecutableGiven ==
    config.arguments = <<>> =>
        /\ pc \in {"inputs", "configure", "parse_input", "returned"}
        /\ Returned => result.kind = "NoExecutableGiven"
        /\ ~Spawned
        /\ feeder.pc = "not started"
        /\ stdoutThread.pc = "not started"
        /\ stderrThread.pc = "not started"
        /\ parentStdout = <<>>
        /\ parentStderr = <<>>

\* the call has returned NoExecutableGiven although LogCommand was given
C9_Witness ==
    /\ config.arguments = <<>>
    /\ config.log_command
    /\ Returned
    /\ result.kind = "NoExecutableGiven"

SpawnFailed == Returned /\ ~Spawned /\ config.arguments # <<>>

\* C10: a failed spawn returns FileNotFound with the executable, the first
\* argument, if the error of the operating system is of the kind NotFound,
\* and CommandIoError for any other kind; no thread has been started and
\* there is no exit status.
C10_SpawnFailure ==
    SpawnFailed =>
        /\ result.kind \in {"FileNotFound", "CommandIoError"}
        /\ result.kind = "FileNotFound" <=> result.source = "NotFound"
        /\ result.kind = "FileNotFound"
              => result.executable = Head(config.arguments)
        /\ result.kind = "CommandIoError"
              => result.full_command = FullCommand(config)
        /\ feeder.pc = "not started"
        /\ stdoutThread.pc = "not started"
        /\ stderrThread.pc = "not started"
        /\ exit_status = -1
        /\ child.exit_code = -1

\* the spawn of a command of two arguments has failed with NotFound
C10_Witness ==
    /\ SpawnFailed
    /\ result.kind = "FileNotFound"
    /\ Len(config.arguments) = 2

HasInvalidByte(bytes) == \E i \in DOMAIN bytes : bytes[i] >= 128

HasTextStdout(type) ==
    \E i \in DOMAIN type : type[i] \in {"StdoutTrimmed", "StdoutUntrimmed"}

\* the run has come to the extraction: the stdin feeder has not failed and
\* the exit status has passed check_exit_status
Extracted ==
    /\ Returned /\ Spawned
    /\ feeder.result = "Ok"
    /\ child.exit_code = 0 \/ ~config.error_on_non_zero_exit_code

\* C11: when the child has written bytes that are no UTF-8 to stdout, a
\* call that comes to the extraction returns InvalidUtf8ToStdout if its
\* output type has a text extractor of stdout, and without capture of
\* stdout it returns Ok and the parent's stdout has the very bytes; no
\* result ever holds text decoded with replacement characters.
C11_InvalidUtf8ToStdout ==
    /\ Extracted /\ HasInvalidByte(childWrote.stdout) =>
          IF HasTextStdout(outputType)
          THEN /\ result.kind = "InvalidUtf8ToStdout"
               /\ result.full_command = FullCommand(config)
          ELSE /\ result.kind = "Ok"
               /\ parentStdout = childWrote.stdout
    /\ Returned /\ result.kind = "Ok" =>
          \A i \in DOMAIN outputType :
             outputType[i] \in {"StdoutTrimmed", "StdoutUntrimmed", "Stderr"}
                => /\ ~HasInvalidByte(result.value[i])
                   /\ outputType[i] = "StdoutUntrimmed"
                         => result.value[i] = childWrote.stdout

\* the helper has printed 0x80 and the call with a text extractor has
\* returned the error
C11_Witness ==
    /\ Extracted
    /\ child.program = <<"bad">>
    /\ HasTextStdout(outputType)
    /\ result.kind = "InvalidUtf8ToStdout"

\* the trim law as stated: one trailing "\n" or "\r\n" goes, nothing else
TrimLaw(s) ==
    IF Len(s) >= 2 /\ s[Len(s) - 1] = 13 /\ s[Len(s)] = NEWLINE
    THEN SubSeq(s, 1, Len(s) - 2)
    ELSE IF Len(s) >= 1 /\ s[Len(s)] = NEWLINE
    THEN SubSeq(s, 1, Len(s) - 1)
    ELSE s

\* C12: the trimmed-stdout extraction removes exactly one trailing "\n" or
\* "\r\n" of what the child has printed, and nothing else.
C12_TrimLaw ==
    Returned /\ outputType = <<"StdoutTrimmed">>
        => result = Ok(<<TrimLaw(childWrote.stdout)>>)

\* t is s without some whitespace at its start and at its end, and has no
\* whitespace at its start or end left
TrimmedOf(t, s) ==
    /\ \E i, j \in 0..Len(s) :
          /\ i + j <= Len(s)
          /\ t = SubSeq(s, i + 1, Len(s) - j)
          /\ \A k \in 1..i : IsWhitespace(s[k])
          /\ \A k \in (Len(s) - j + 1)..Len(s) : IsWhitespace(s[k])
    /\ t # <<>> => ~IsWhitespace(t[1]) /\ ~IsWhitespace(t[Len(t)])

\* C13: StdoutTrimmed returns what the child has printed without the
\* whitespace at its start and at its end, whitespace inside is kept;
\* StdoutUntrimmed returns it unchanged.
C13_TrimmedAndUntrimmed ==
    Returned =>
        /\ result.kind = "Ok"
        /\ outputType = <<"StdoutTrimmed">>
              => TrimmedOf(result.value[1], childWrote.stdout)
        /\ outputType = <<"StdoutUntrimmed">>
              => result.value[1] = childWrote.stdout

\* the child has printed " f " and StdoutTrimmed has returned "f"
C13_Witness ==
    /\ Returned
    /\ outputType = <<"StdoutTrimmed">>
    /\ childWrote.stdout = <<SPACE, 102, SPACE>>
    /\ result = Ok(<< <<102>> >>)

\* the bytes of the Stdin inputs of a call, in the order of the call
RECURSIVE StdinOf(_)
StdinOf(inputs) ==
    IF inputs = <<>> THEN <<>>
    ELSE LET last == inputs[Len(inputs)]
             before == StdinOf(SubSeq(inputs, 1, Len(inputs) - 1))
         IN IF last.kind = "Stdin" THEN before \o last.value ELSE before

\* C14: once the inputs are applied, the stdin payload is the concatenation
\* of the bytes of the Stdin inputs in the order of the call; what the
\* feeder has written to the child's stdin (what the child has read and
\* what is in the pipe) is a prefix of it, and a feeder that has finished
\* without error has written exactly that payload.
C14_StdinConcatenation ==
    /\ pc # "inputs" => config.stdin = StdinOf(input)
    /\ Spawned =>
          /\ IsPrefix(childRead \o stdinPipe.buf, StdinOf(input))
          /\ stdinPipe.reader
                => Len(childRead) + Len(stdinPipe.buf) = feeder.written
          /\ feeder.result = "Ok" => feeder.written = Len(StdinOf(input))
          /\ feeder.result = "Ok" /\ child.program \in ReadPrograms
                /\ child.state = "exited"
                => childRead = StdinOf(input)

\* two Stdin inputs, and the child has read the bytes of both in order
C14_Witness ==
    /\ input = <<ArgumentInput(<<97>>), StdinInput(<<98>>), StdinInput(<<97>>)>>
    /\ feeder.result = "Ok"
    /\ child.state = "exited"
    /\ childRead = <<98, 97>>

\* the places of the Env inputs of a call that name the variable
EnvPlaces(inputs, key) ==
    { i \in DOMAIN inputs : inputs[i].kind = "Env" /\ inputs[i].key = key }

LastPlace(places) == CHOOSE i \in places : \A j \in places : j <= i

\* C15: the environment of the child is that of the parent, except that a
\* variable named by an Env input has the value of the last Env input of
\* the call that names it.
C15_ChildEnvironment ==
    Spawned =>
        \A key \in EnvKeys :
            child.environment[key] =
                IF EnvPlaces(input, key) = {} THEN ParentEnvironment[key]
                ELSE Some(input[LastPlace(EnvPlaces(input, key))].value)

\* "K" is set in the parent and added twice: the child sees the last value
C15_Witness ==
    /\ Spawned
    /\ input = <<ArgumentInput(<<97>>), EnvInput(<<75>>, <<118>>),
                 EnvInput(<<75>>, <<119>>)>>
    /\ ParentEnvironment[<<75>>] = Some(<<112>>)
    /\ child.environment[<<75>>] = Some(<<119>>)
    /\ child.environment[<<76>>] = Some(<<112>>)

\* C16: after the configuration of a tuple output type a stream is captured
\* iff a member asks for it, and the non-zero-exit policy is off iff a
\* member is Status or bool, whatever the order of the members; a call
\* that comes to the extraction with (StdoutTrimmed, Status) or with
\* (Status, StdoutTrimmed) returns Ok with the text the child has printed
\* and its exit code, non-zero codes too.
C16_TupleConfiguration ==
    /\ pc \notin {"inputs", "configure"} =>
          /\ config.capture_stdout <=> HasTextStdout(outputType)
          /\ config.capture_stderr
                <=> \E i \in DOMAIN outputType : outputType[i] = "Stderr"
          /\ config.error_on_non_zero_exit_code
                <=> ~HasPolicyExtractor(outputType)
    /\ Returned /\ Spawned /\ feeder.result = "Ok"
          /\ ~HasInvalidByte(childWrote.stdout) =>
          /\ outputType = <<"StdoutTrimmed", "Status">>
                => /\ result.kind = "Ok"
                   /\ result.value[1] = childWrote.stdout
                   /\ result.value[2] = child.exit_code
          /\ outputType = <<"Status", "StdoutTrimmed">>
                => /\ result.kind = "Ok"
                   /\ result.value[1] = child.exit_code
                   /\ result.value[2] = childWrote.stdout

\* the child has printed and exited with 42: (Status, StdoutTrimmed) is Ok
C16_Witness ==
    /\ Returned
    /\ outputType = <<"Status", "StdoutTrimmed">>
    /\ child.program = <<"out">>
    /\ result.kind = "Ok"
    /\ result.value[1] = 42
    /\ result.value[2] = <<StdoutByte(1)>>

BoolPlaces(type) == { i \in DOMAIN type : type[i] = "bool" }

\* C17: a call with the bool extractor never returns NonZeroExitCode; when
\* it returns Ok the boolean is true iff the exit code of the child is 0,
\* and it returns Ok whenever the child was spawned and the stdin feeder
\* has not failed; when no child was spawned it returns an error.
C17_BoolExtractor ==
    Returned /\ BoolPlaces(outputType) # {} =>
        /\ result.kind # "NonZeroExitCode"
        /\ result.kind = "Ok" =>
              \A i \in BoolPlaces(outputType) :
                  result.value[i] = (child.exit_code = 0)
        /\ Spawned /\ feeder.result = "Ok" => result.kind = "Ok"
        /\ ~Spawned => result.kind \in {"NoExecutableGiven", "FileNotFound",
                                        "CommandIoError"}

\* the child has exited with 1 and the call has returned false
C17_Witness ==
    /\ Returned
    /\ outputType = <<"bool">>
    /\ child.exit_code = 1
    /\ result.kind = "Ok"
    /\ result.value = <<FALSE>>

HasLogCommand(inputs) == \E i \in DOMAIN inputs : inputs[i].kind = "LogCommand"

\* the call has passed the logging: it is about to spawn or has tried to
PastLogging ==
    pc = "spawn" \/ Spawned \/ (Returned /\ result.kind # "NoExecutableGiven")

Count(byte, bytes) == Cardinality({ i \in DOMAIN bytes : bytes[i] = byte })

\* C18: with LogCommand, a call that has passed the logging has written
\* "+ ", the full command and a newline to the parent's stderr, once, and
\* already before the spawn: all that is on the parent's stderr after this
\* line are bytes the child has written to its stderr; before the logging,
\* and without LogCommand, no such line is written.
C18_LogCommand ==
    LET line == <<PLUS, SPACE>> \o FullCommand(config) \o <<NEWLINE>>
    IN /\ HasLogCommand(input) /\ PastLogging =>
             /\ IsPrefix(line, parentStderr)
             /\ IsPrefix(Drop(parentStderr, Len(line)), childWrote.stderr)
             /\ Count(NEWLINE, parentStderr) = 1
             /\ pc = "spawn" => parentStderr = line
       /\ ~HasLogCommand(input) \/ ~PastLogging =>
             /\ IsPrefix(parentStderr, childWrote.stderr)
             /\ Count(PLUS, parentStderr) = 0

\* the log line is on the parent's stderr, and after it what the child has
\* written to its stderr
C18_Witness ==
    /\ HasLogCommand(input)
    /\ Len(config.arguments) = 2
    /\ childWrote.stderr # <<>>
    /\ parentStderr =
          <<PLUS, SPACE, 97, SPACE, QUOTE, 98, SPACE, 99, QUOTE, NEWLINE>>
              \o childWrote.stderr

\* the arguments of a call, in the order of the call
ArgumentsOf(inputs) ==
    LET places == { i \in DOMAIN inputs : inputs[i].kind = "Argument" }
        RECURSIVE Upto(_)
        Upto(n) ==
            IF n = 0 THEN <<>>
            ELSE IF n \in places THEN Append(Upto(n - 1), inputs[n].value)
            ELSE Upto(n - 1)
    IN Upto(Len(inputs))

\* an argument as it is shown: in single quotes iff it is empty or has a
\* space; a byte that is no UTF-8 is shown as U+FFFD
Shown(argument) ==
    LET text == [i \in DOMAIN argument |->
                    IF argument[i] >= 128 THEN REPLACEMENT ELSE argument[i]]
        quoted == argument = <<>> \/ \E i \in DOMAIN argument : argument[i] = SPACE
    IN IF quoted THEN <<QUOTE>> \o text \o <<QUOTE>> ELSE text

RECURSIVE JoinedBySpaces(_)
JoinedBySpaces(words) ==
    IF words = <<>> THEN <<>>
    ELSE IF Len(words) = 1 THEN words[1]
    ELSE JoinedBySpaces(SubSeq(words, 1, Len(words) - 1))
             \o <<SPACE>> \o words[Len(words)]

\* C19: the full command is the arguments of the call in order, each in
\* single quotes iff it is empty or has a space, joined by single spaces;
\* errors that carry the full command carry this.
C19_FullCommand ==
    LET arguments == ArgumentsOf(input)
        rendered == JoinedBySpaces([i \in DOMAIN arguments |-> Shown(arguments[i])])
    IN /\ pc # "inputs" => FullCommand(config) = rendered
       /\ Returned /\ result.kind \in {"CommandIoError", "NonZeroExitCode"}
             => result.full_command = rendered

\* the command `a '' 'b c'`, in the error of a call
C19_Witness ==
    /\ Returned
    /\ result.kind = "NonZeroExitCode"
    /\ config.arguments = << <<97>>, <<>>, <<98, SPACE, 99>> >>
    /\ result.full_command =
          <<97, SPACE, QUOTE, QUOTE, SPACE, QUOTE, 98, SPACE, 99, QUOTE>>

WordStarts(text) ==
    { i \in DOMAIN text :
        ~IsWhitespace(text[i]) /\ (i = 1 \/ IsWhitespace(text[i - 1])) }

\* the place where the word that starts at i ends
WordEnd(text, i) ==
    CHOOSE j \in i..Len(text) :
        /\ \A k \in i..j : ~IsWhitespace(text[k])
        /\ j = Len(text) \/ IsWhitespace(text[j + 1])

\* the maximal runs of non-whitespace of a text, from left to right
Words(text) ==
    LET starts == WordStarts(text)
        nth(k) == CHOOSE i \in starts :
                     Cardinality({ j \in starts : j < i }) = k - 1
    IN [k \in 1..Cardinality(starts) |->
          SubSeq(text, nth(k), WordEnd(text, nth(k)))]

ExpectedArgumentsOf(i) ==
    CASE i.kind = "Argument" -> << i.value >>
      [] i.kind = "Vec" -> i.elements
      [] i.kind = "Split" -> Words(i.value)
      [] OTHER -> <<>>

RECURSIVE ExpectedArguments(_)
ExpectedArguments(inputs) ==
    IF inputs = <<>> THEN <<>>
    ELSE ExpectedArgumentsOf(Head(inputs)) \o ExpectedArguments(Tail(inputs))

C21_SplitArguments ==
    pc = "configure" =>
        /\ config.arguments = ExpectedArguments(input)
        /\ \A i \in DOMAIN input :
              input[i].kind = "Split" =>
                  \A k \in DOMAIN Words(input[i].value) :
                      LET word == Words(input[i].value)[k]
                      IN word # <<>> /\ \A n \in DOMAIN word :
                                            ~IsWhitespace(word[n])

C21_Witness ==
    /\ pc = "configure"
    /\ input = << ArgumentInput(<<SPACE, 98, SPACE, SPACE, 99, SPACE>>),
                  SplitInput(<<SPACE, 98, SPACE, SPACE, 99, SPACE>>),
                  VecInput(<< <<98, SPACE, 99>>, <<100>> >>) >>
    /\ config.arguments = << <<SPACE, 98, SPACE, SPACE, 99, SPACE>>,
                             <<98>>, <<99>>, <<98, SPACE, 99>>, <<100>> >>

(***************************************************************************)
(* C30: two builders of different kinds (argument, working directory,      *)
(* environment addition, stdin payload, logging flag) commute: exchanging  *)
(* two neighbouring inputs of different kinds in a call leaves the         *)
(* configuration that the call builds unchanged, so that only the order    *)
(* of the inputs of one kind among themselves can change it.               *)
(***************************************************************************)
BuilderKind(i) ==
    IF i.kind \in {"Argument", "Split", "Vec"} THEN "argument" ELSE i.kind

\* the inputs with the k-th and its successor exchanged
Exchanged(inputs, k) ==
    [n \in DOMAIN inputs |->
        IF n = k THEN inputs[k + 1]
        ELSE IF n = k + 1 THEN inputs[k] ELSE inputs[n]]

C30_BuildersCommute ==
    pc = "configure" =>
        \A k \in 1..(Len(input) - 1) :
            BuilderKind(input[k]) # BuilderKind(input[k + 1]) =>
                InputConfigure(Exchanged(input, k), DefaultConfig) = config

C30_Witness ==
    /\ pc = "configure"
    /\ input = << CurrentDirInput(<<100>>), ArgumentInput(<<97>>),
                  StdinInput(<<98>>) >>
    /\ config.working_directory = Some(<<100>>)
    /\ config.arguments = << <<97>> >>
    /\ config.stdin = <<98>>
    /\ config = InputConfigure(<< StdinInput(<<98>>), ArgumentInput(<<97>>),
                                  CurrentDirInput(<<100>>) >>, DefaultConfig)

(***************************************************************************)
(* C22: per-stream order.  At every moment of an invocation the bytes      *)
(* relayed so far to the parent's stdout are a prefix of the bytes the     *)
(* child has written to its stdout, and those relayed to the parent's      *)
(* stderr are a prefix of what the child has written to its stderr.        *)
(* Nothing orders the two streams: the witness is a state in which bytes   *)
(* of stderr have been relayed while bytes the child wrote to stdout       *)
(* before them have not.                                                   *)
(***************************************************************************)
C22_PerStreamOrder ==
    /\ IsPrefix(parentStdout, childWrote.stdout)
    /\ IsPrefix(RelayedStderr, childWrote.stderr)

C22_Witness ==
    /\ ~config.capture_stdout /\ ~config.capture_stderr
    /\ child.program = Fill("out") \o Fill("err")
    /\ RelayedStderr # <<>>
    /\ parentStdout # <<>>
    /\ Len(parentStdout) < Len(childWrote.stdout)

(***************************************************************************)
(* C23: a child that writes more than a pipe holds to stdout and to        *)
(* stderr, one after the other in either order or in turns, and then       *)
(* exits: the invocation always returns, after the child has written all   *)
(* of it and has exited.  Neither relaying thread waits for the other.     *)
(***************************************************************************)
C23_InterleavedStreams ==
    (Spawned /\ child.program \in StreamPrograms)
        ~> /\ Returned
           /\ child.state = "exited"
           /\ Len(childWrote.stdout) = PipeCapacity + 1
           /\ Len(childWrote.stderr) = PipeCapacity + 1

\* the child is blocked on the full stderr pipe while the stdout thread
\* waits for bytes on the empty stdout pipe
C23_Witness ==
    /\ Running
    /\ child.program \in StreamPrograms
    /\ Instruction = "err"
    /\ Len(stderrPipe.buf) = PipeCapacity
    /\ stdoutThread.pc = "read"
    /\ stdoutPipe.buf = <<>>
    /\ stdoutPipe.writer

(***************************************************************************)
(* C24: the order of the events of an execution.  The child is spawned,    *)
(* then the stdin feeder and both drainers are started, then the parent    *)
(* blocks on the child's exit, then it joins the feeder, then the stdout   *)
(* drainer, then the stderr drainer: the parent takes these steps in this  *)
(* order only, a thread runs only once the child is spawned, the parent    *)
(* waits for the exit only when all three threads have been started, and   *)
(* it is past a join only when the joined thread has ended.                *)
(***************************************************************************)
EngineSteps ==
    << "spawn", "relay", "wait", "join_stdin", "join_stdout", "join_stderr",
       "check_exit_status" >>

\* the place of a step in the order, 0 for the steps before and after
StepOf(p) ==
    IF \E k \in DOMAIN EngineSteps : EngineSteps[k] = p
    THEN CHOOSE k \in DOMAIN EngineSteps : EngineSteps[k] = p
    ELSE 0

Started(thread) == thread.pc # "not started"

AllStarted ==
    Started(feeder) /\ Started(stdoutThread) /\ Started(stderrThread)

EventsInOrder ==
    /\ Started(feeder) \/ Started(stdoutThread) \/ Started(stderrThread)
          => Spawned /\ AllStarted
    /\ StepOf(pc) >= StepOf("wait") => AllStarted
    /\ StepOf(pc) > StepOf("wait")
          => child.state = "exited" /\ exit_status = child.exit_code
    /\ StepOf(pc) > StepOf("join_stdin") => feeder.pc = "done"
    /\ StepOf(pc) > StepOf("join_stdout") => stdoutThread.pc = "done"
    /\ StepOf(pc) > StepOf("join_stderr") => stderrThread.pc = "done"

StepsInOrder ==
    pc' # pc /\ StepOf(pc') > 0 =>
        IF pc' = "spawn" THEN StepOf(pc) = 0 /\ ~Spawned
        ELSE StepOf(pc') = StepOf(pc) + 1

C24_CompletionOrder == []EventsInOrder /\ [][StepsInOrder]_vars

\* the parent has come through all of the steps
C24_Witness ==
    /\ pc = "check_exit_status"
    /\ child.program = <<"out", "wait", "out">>
    /\ child.state = "exited"
    /\ TasksDone

(***************************************************************************)
(* C25: a relaying thread that panics does not hang the join, and once     *)
(* the parent has joined it the call returns a CommandIoError to the       *)
(* caller.                                                                 *)
(***************************************************************************)
\* the call is over, with a result or with a panic
Finished == pc \in {"returned", "panicked"}

\* Waiter::join has come to the join of the thread
StdoutJoined == Finished /\ feeder.result = "Ok" /\ stdoutThread.pc = "done"

StderrJoined ==
    StdoutJoined /\ stdoutThread.result = "Ok" /\ stderrThread.pc = "done"

C25_PanicBecomesCommandIoError ==
    /\ StdoutJoined /\ stdoutThread.result = "Panicked"
          => Returned /\ result.kind = "CommandIoError"
    /\ StderrJoined /\ stderrThread.result = "Panicked"
          => Returned /\ result.kind = "CommandIoError"

(***************************************************************************)
(* C26: a captured stream is captured whole.  Once Waiter::join has        *)
(* returned the output, the buffer of a captured stream holds exactly the  *)
(* bytes the child wrote to that stream, in order; and in a result that    *)
(* is Ok the untrimmed stdout and the stderr are those bytes and the       *)
(* trimmed stdout is their trimming, also when the child has exited with   *)
(* a non-zero code under an output type with Status.                       *)
(***************************************************************************)
OutputJoined == pc \in {"check_exit_status", "from_child_output"}

C26_CapturedWhole ==
    /\ OutputJoined /\ config.capture_stdout
          => collected.stdout = Some(childWrote.stdout)
    /\ OutputJoined /\ config.capture_stderr
          => collected.stderr = Some(childWrote.stderr)
    /\ Returned /\ result.kind = "Ok" =>
          \A i \in DOMAIN outputType :
              /\ outputType[i] = "StdoutUntrimmed"
                    => result.value[i] = childWrote.stdout
              /\ outputType[i] = "StdoutTrimmed"
                    => TrimmedOf(result.value[i], childWrote.stdout)
              /\ outputType[i] = "Stderr"
                    => result.value[i] = childWrote.stderr

\* more than a pipe holds, captured from a child that exits with 42
C26_Witness ==
    /\ Returned
    /\ outputType = <<"StdoutTrimmed", "Status">>
    /\ child.program = Fill("out") \o <<"read">>
    /\ result.kind = "Ok"
    /\ result.value[1] = childWrote.stdout
    /\ Len(result.value[1]) = PipeCapacity + 1
    /\ result.value[2] = 42

(***************************************************************************)
(* C27: when the call returns NonZeroExitCode, everything the child wrote  *)
(* to a stream that is not captured has been relayed to the parent's       *)
(* stream already.                                                         *)
(***************************************************************************)
C27_RelayedBeforeNonZeroExitCode ==
    Returned /\ result.kind = "NonZeroExitCode" =>
        /\ child.state = "exited" /\ child.exit_code # 0
        /\ ~config.capture_stdout => parentStdout = childWrote.stdout
        /\ ~config.capture_stderr => RelayedStderr = childWrote.stderr

\* "output foo and exit with 42" without capture
C27_Witness ==
    /\ Returned
    /\ result.kind = "NonZeroExitCode"
    /\ outputType = <<"Unit">>
    /\ child.program = <<"out", "wait", "out">>
    /\ child.exit_code = 42
    /\ parentStdout = <<StdoutByte(1), StdoutByte(2)>>

(***************************************************************************)
(* C28: in the output that Waiter::join hands to the parent and in the     *)
(* ChildOutput made of it, the captured stdout is present iff              *)
(* capture_stdout is set and the captured stderr is present iff            *)
(* capture_stderr is set; a captured stream the child wrote nothing to is  *)
(* present and empty.                                                      *)
(***************************************************************************)
C28_CapturedIffConfigured ==
    pc = "from_child_output" =>
        LET child_output == ChildOutputOf(collected, exit_status)
        IN /\ child_output.stdout.some <=> config.capture_stdout
           /\ child_output.stderr.some <=> config.capture_stderr
           /\ config.capture_stdout /\ childWrote.stdout = <<>>
                 => child_output.stdout = Some(<<>>)
           /\ config.capture_stderr /\ childWrote.stderr = <<>>
                 => child_output.stderr = Some(<<>>)

(***************************************************************************)
(* C29: of a stream that is not captured the engine keeps nothing: at      *)
(* every moment the bytes of that stream held by its relaying thread, in   *)
(* its read buffer and in its collection, and those handed to the parent   *)
(* at the join are at most one read chunk, for stdout and for stderr.      *)
(***************************************************************************)
Held(thread) == Len(thread.buffer) + Len(thread.collected.val)

C29_NothingRetained ==
    /\ ~config.capture_stdout
          => /\ Held(stdoutThread) <= BufferSize
             /\ Len(collected.stdout.val) <= BufferSize
    /\ ~config.capture_stderr
          => /\ Held(stderrThread) <= BufferSize
             /\ Len(collected.stderr.val) <= BufferSize

(***************************************************************************)
(* C31: the arguments after configuration are the left-to-right            *)
(* flattening of the inputs.  Tuples nested to any depth, sequences and    *)
(* the right-nested tuple of the macros append their elements in the       *)
(* order of the call, the unit input appends nothing, and the first        *)
(* argument is the executable: without any argument the call returns       *)
(* NoExecutableGiven, and a spawn that finds no file names the first       *)
(* argument as the executable.                                             *)
(***************************************************************************)
RECURSIVE FlatArgumentsOf(_)
RECURSIVE FlatArguments(_)

FlatArgumentsOf(i) ==
    IF i.kind = "Tuple" THEN FlatArguments(i.members)
    ELSE ExpectedArgumentsOf(i)

FlatArguments(inputs) ==
    IF inputs = <<>> THEN <<>>
    ELSE FlatArgumentsOf(Head(inputs)) \o FlatArguments(Tail(inputs))

C31_Flattening ==
    /\ pc # "inputs" => config.arguments = FlatArguments(input)
    /\ result.kind = "NoExecutableGiven" <=>
          pc = "returned" /\ FlatArguments(input) = <<>>
    /\ result.kind = "FileNotFound" =>
          result.executable = Head(FlatArguments(input))
    /\ Spawned => child.program \in ProgramsOf(Head(FlatArguments(input)))

\* run_result!((), ("i", ["i", "b c"])) has found no file "i"
C31_Witness ==
    /\ input = << TupleUp(<< UnitInput,
                             TupleInput(<< ArgumentInput(StreamsHelper),
                                           VecInput(<< StreamsHelper,
                                                       <<98, SPACE, 99>> >>) >>)
                          >>) >>
    /\ config.arguments = << StreamsHelper, StreamsHelper, <<98, SPACE, 99>> >>
    /\ result.kind = "FileNotFound"
    /\ result.executable = StreamsHelper

(***************************************************************************)
(* C32: the extraction of a tuple converts the members in the order of     *)
(* their declaration and returns the error of the first member whose       *)
(* conversion fails.  When the child has written invalid UTF-8 to stdout   *)
(* and to stderr, (StdoutUntrimmed, Stderr) returns InvalidUtf8ToStdout    *)
(* and (Stderr, StdoutUntrimmed) returns InvalidUtf8ToStderr.              *)
(***************************************************************************)
\* the error of the member of the output type at place i, "Ok" if it has none
MemberError(i) ==
    CASE outputType[i] \in {"StdoutTrimmed", "StdoutUntrimmed"}
             /\ HasInvalidByte(childWrote.stdout) -> "InvalidUtf8ToStdout"
      [] outputType[i] = "Stderr" /\ HasInvalidByte(childWrote.stderr)
             -> "InvalidUtf8ToStderr"
      [] OTHER -> "Ok"

FailingMembers == { i \in DOMAIN outputType : MemberError(i) # "Ok" }

C32_FirstErrorWins ==
    Returned =>
        /\ IF FailingMembers = {} THEN result.kind = "Ok"
           ELSE \E i \in FailingMembers :
                   /\ \A j \in FailingMembers : i <= j
                   /\ result.kind = MemberError(i)
        /\ HasInvalidByte(childWrote.stdout)
              /\ HasInvalidByte(childWrote.stderr) =>
              /\ outputType = <<"StdoutUntrimmed", "Stderr">>
                    => result.kind = "InvalidUtf8ToStdout"
              /\ outputType = <<"Stderr", "StdoutUntrimmed">>
                    => result.kind = "InvalidUtf8ToStderr"

C32_Witness ==
    /\ Returned
    /\ outputType = <<"Stderr", "StdoutUntrimmed">>
    /\ childWrote = [stdout |-> <<INVALID>>, stderr |-> <<INVALID>>]
    /\ result.kind = "InvalidUtf8ToStderr"

(***************************************************************************)
(* C33: wrapping a return type T in Result<T> leaves the configuration as  *)
(* T alone prepares it, and the extraction of Result<T> never fails: it    *)
(* returns Ok, holding the error of a failed run or of a failed extraction *)
(* of T as the inner Err.                                                  *)
(***************************************************************************)
Unwrapped(type) == [type EXCEPT !.wrapped = FALSE]

CmdFinished == pc \in {"returned", "panicked"}

\* the error T's extraction has for the run, "None" when it has none
InnerError(members, run) ==
    LET failing == { i \in DOMAIN members :
                       \/ /\ members[i] \in {"String", "UntrimmedStdout"}
                          /\ ~ValidUtf8(run.stdout)
                       \/ /\ members[i] = "Stderr"
                          /\ ~ValidUtf8(run.stderr) }
    IN IF failing = {} THEN "None"
       ELSE LET first == CHOOSE i \in failing : \A j \in failing : i <= j
            IN IF members[first] = "Stderr" THEN "InvalidUtf8ToStderr"
               ELSE "InvalidUtf8ToStdout"

C33_PreparesAsInner ==
    pc = "prepare_config" /\ outputType.wrapped
        => config' = PrepareConfig(Unwrapped(outputType), config)

C33_NeverFails ==
    CmdFinished /\ outputType.wrapped
        => /\ pc = "returned"
           /\ result.kind = "Ok"
           /\ collected.kind # "Ok" => result.value = collected
           /\ collected.kind = "Ok"
                 => LET error == InnerError(outputType.members, collected.value)
                    IN IF error = "None" THEN result.value.kind = "Ok"
                       ELSE result.value.kind = error

C33_ResultWrapper == [][C33_PreparesAsInner]_vars /\ []C33_NeverFails

\* the part of C33 that holds: the configuration, and the extraction of
\* every run but those on which trim_trailing_newline panics
C33_ApartFromPanics ==
    /\ [][C33_PreparesAsInner]_vars
    /\ [](pc = "returned" => C33_NeverFails)

C33_Witness ==
    /\ pc = "returned"
    /\ outputType = [wrapped |-> TRUE, members |-> <<"String">>]
    /\ collected.kind = "Ok"
    /\ collected.value.stdout = <<INVALID>>
    /\ result = Ok([kind |-> "InvalidUtf8ToStdout"])

(***************************************************************************)
(* C39: trim_trailing_newline returns a string for every string, and the   *)
(* empty string for "\n": the String return type of cmd! returns for every *)
(* run whose stdout is UTF-8.                                              *)
(***************************************************************************)
C39_TrimReturns ==
    /\ CmdFinished
    /\ outputType = [wrapped |-> FALSE, members |-> <<"String">>]
    /\ collected.kind = "Ok"
    /\ ValidUtf8(collected.value.stdout)
    => /\ pc = "returned"
       /\ result.kind = "Ok"
       /\ collected.value.stdout = <<NEWLINE>> => result.value = <<>>

\* what trim_trailing_newline does return, for every longer string
C39_TrimsLongerStrings ==
    /\ pc = "returned"
    /\ outputType = [wrapped |-> FALSE, members |-> <<"String">>]
    /\ result.kind = "Ok"
    => LET text == collected.value.stdout
           n == Len(text)
       IN result.value =
             IF n >= 2 /\ text[n] = NEWLINE /\ text[n - 1] = 13
             THEN SubSeq(text, 1, n - 2)
             ELSE IF n >= 1 /\ text[n] = NEWLINE
             THEN SubSeq(text, 1, n - 1)
             ELSE text

(***************************************************************************)
(* C34: if writing the log line to the parent's stderr fails, the call     *)
(* returns CommandIoError and no child process is spawned.                 *)
(***************************************************************************)
LogWriteFails == config.log_command /\ context.stderr = "fails"

C34_LogFailureStep ==
    pc = "log_command" /\ LogWriteFails
        => /\ pc' = "returned"
           /\ result'.kind = "CommandIoError"
           /\ result'.full_command = FullCommand(config)
           /\ child'.state = "none"

C34_LogFailure ==
    [][C34_LogFailureStep]_vars /\ [](LogWriteFails => child.state = "none")

C34_Witness ==
    /\ LogWriteFails
    /\ pc = "returned"
    /\ result.kind = "CommandIoError"
    /\ config.arguments = << <<97>>, <<98, SPACE, 99>> >>
    /\ child.state = "none"
    /\ parentStderr = <<>>

(***************************************************************************)
(* C35: error precedence.  When a thread has failed with an I/O error the  *)
(* call returns CommandIoError, whatever the exit code of the child is:    *)
(* the exit status is checked only after all joins.  The error of the      *)
(* stdin thread is returned before that of the stdout thread, and that of  *)
(* the stdout thread before that of the stderr thread.  (Threads that fail *)
(* with I/O errors: a thread that has panicked is the case of C25.)        *)
(***************************************************************************)
FeederFailed == feeder.pc = "done" /\ feeder.result # "Ok"

DrainerFailed(thread) == thread.pc = "done" /\ thread.result = "Other"

NoThreadPanicked ==
    stdoutThread.result # "Panicked" /\ stderrThread.result # "Panicked"

C35_IoErrorFirst ==
    Finished /\ exit_status # -1 /\ NoThreadPanicked
        => IF FeederFailed
           THEN Returned /\ result = CommandIoError(config, feeder.result)
           ELSE DrainerFailed(stdoutThread) \/ DrainerFailed(stderrThread)
                   => Returned /\ result = CommandIoError(config, "Other")

C35_StdoutBeforeStderr ==
    pc = "join_stdout" /\ pc' # pc /\ DrainerFailed(stdoutThread)
        => /\ pc' = "returned"
           /\ result' = CommandIoError(config, stdoutThread.result)

C35_ErrorPrecedence == []C35_IoErrorFirst /\ [][C35_StdoutBeforeStderr]_vars

\* the child has exited with 42, the stdin thread and the stdout thread
\* have both failed, and the call has returned the error of the stdin thread
C35_Witness ==
    /\ pc = "returned"
    /\ exit_status = 42
    /\ FeederFailed
    /\ DrainerFailed(stdoutThread)
    /\ result = CommandIoError(config, "BrokenPipe")

(***************************************************************************)
(* C36: with an output type built from (), StdoutTrimmed, StdoutUntrimmed, *)
(* Stderr, Status, bool and tuples of them, a call never returns           *)
(* Error::Internal: when the output is extracted, every stream a member    *)
(* reads has been requested by the configuration and is present in the     *)
(* ChildOutput.                                                            *)
(***************************************************************************)
ReadsStdout(type) ==
    \E i \in DOMAIN type : type[i] \in {"StdoutTrimmed", "StdoutUntrimmed"}

ReadsStderr(type) == \E i \in DOMAIN type : type[i] = "Stderr"

C36_NeverInternal ==
    /\ Returned => result.kind # "Internal"
    /\ pc = "from_child_output" /\ ReadsStdout(outputType)
          => config.capture_stdout /\ collected.stdout.some
    /\ pc = "from_child_output" /\ ReadsStderr(outputType)
          => config.capture_stderr /\ collected.stderr.some

C36_Witness ==
    /\ Returned
    /\ outputType = <<"StdoutUntrimmed", "Stderr">>
    /\ childWrote.stdout # <<>>
    /\ result.kind = "Ok"
    /\ result.value = << childWrote.stdout, childWrote.stderr >>

(***************************************************************************)
(* C37: the configure of an output type only turns capture_stdout and      *)
(* capture_stderr from false to true and error_on_non_zero_exit_code from  *)
(* true to false; it leaves the arguments, the added environment           *)
(* variables, the working directory, the stdin payload and log_command as  *)
(* they are; and configuring twice is configuring once.                    *)
(***************************************************************************)
OnlyRaises(before, after) == before => after

SameInputs(c, d) ==
    /\ d.arguments = c.arguments
    /\ d.added_environment_variables = c.added_environment_variables
    /\ d.working_directory = c.working_directory
    /\ d.stdin = c.stdin
    /\ d.log_command = c.log_command

ConfiguresWithin(c, d) ==
    /\ OnlyRaises(c.capture_stdout, d.capture_stdout)
    /\ OnlyRaises(c.capture_stderr, d.capture_stderr)
    /\ OnlyRaises(d.error_on_non_zero_exit_code, c.error_on_non_zero_exit_code)
    /\ SameInputs(c, d)

C37_ConfigureStep ==
    pc = "configure" /\ pc' # pc
        => /\ ConfiguresWithin(config, config')
           /\ OutputConfigure(outputType, config') = config'
           /\ \A i \in DOMAIN outputType :
                 LET once == ConfigureOne(outputType[i], config)
                 IN /\ ConfiguresWithin(config, once)
                    /\ ConfiguresWithin(config', ConfigureOne(outputType[i], config'))
                    /\ ConfigureOne(outputType[i], once) = once

C37_ConfigureFrame == [][C37_ConfigureStep]_vars

C37_Witness ==
    /\ pc = "parse_input"
    /\ outputType = <<"StdoutTrimmed", "Status">>
    /\ config.capture_stdout
    /\ ~config.capture_stderr
    /\ ~config.error_on_non_zero_exit_code
    /\ config.stdin # <<>>
    /\ config.arguments = << <<97>>, <<98, SPACE, 99>> >>

(***************************************************************************)
(* C38: for a child that exits successfully without ever reading its stdin *)
(* and a stdin payload of at least one byte and at most the capacity of    *)
(* the pipe, the call returns success under every interleaving of the      *)
(* stdin thread with the exit of the child.                                *)
(***************************************************************************)
NeverReads(program) == \A i \in DOMAIN program : program[i] # "read"

SmallPayloadIgnored ==
    /\ Returned
    /\ exit_status = 0
    /\ outputType = <<"Unit">>
    /\ Len(config.stdin) \in 1..PipeCapacity
    /\ NeverReads(child.program)

C38_SchedulingIndependent == SmallPayloadIgnored => result.kind = "Ok"

\* the two outcomes of one such call: the write came before the exit of
\* the child, or after it
C38_WrittenBeforeExit ==
    /\ SmallPayloadIgnored
    /\ child.program = <<>>
    /\ feeder.result = "Ok"
    /\ result.kind = "Ok"

C38_WrittenAfterExit ==
    /\ SmallPayloadIgnored
    /\ child.program = <<>>
    /\ feeder.result = "BrokenPipe"
    /\ result = CommandIoError(config, "BrokenPipe")

====
